---- MODULE Spec2Model ----
(***************************************************************************)
(* A model of the wormhole URL shortener's compact-ID generator            *)
(* (wormhole-tinyflake) and of its read-path cache substrate (the Moka     *)
(* single-flight cache, the layered cache and the cached repository).      *)
(***************************************************************************)
EXTENDS Integers, Sequences, FiniteSets, TLC

(***************************************************************************)
(* Bounds of the model.                                                    *)
(***************************************************************************)
\* Clock seconds 0..MaxSec lie near the epoch; two more lie past the 30-bit limit.
MaxSec == 1
\* Sub-second positions 0..MaxSub of a Timestamp.
MaxSub == 1
\* next_id calls of a run whose every returned ID is logged.
MaxCalls == 4
\* Concurrent callers (tasks) of the cache operations, 1..NCallers.
NCallers == 2

\* Rust's Option.
None == [some |-> FALSE]
Some(v) == [some |-> TRUE, val |-> v]

\* The concurrent callers (tasks or threads) of an operation.
Callers == 1 .. NCallers

(***************************************************************************)
(* wormhole-tinyflake: Tinyflake::next_id over a Clock.                    *)
(***************************************************************************)
MAX_TIMESTAMP_SECONDS == 2^30 - 1
MAX_SEQUENCE == 255

VARIABLES
    clock,                  \* the Clock's current Timestamp
    start_time,             \* Tinyflake.start_time, in whole seconds
    last_elapsed_timestamp, \* GeneratorState.last_elapsed_timestamp
    sequence,               \* GeneratorState.sequence
    ret,                    \* what the latest next_id call returned
    issued,                 \* the (timestamp, sequence) of the latest Ok(id)
    flip,                   \* toggles at every Ok(id)
    monotonic,              \* the clock has never been set backward
    calls,                  \* logged runs: the number of next_id calls made
    emitted,                \* logged runs: every (timestamp, sequence) returned
    duplicate,              \* logged runs: a call returned a pair returned before
    guard,                  \* Tinyflake.state's Mutex: the thread holding the guard
    local                   \* each thread's `now` and sequence inside next_id

flakeVars == <<clock, start_time, last_elapsed_timestamp, sequence, ret, issued,
               flip, monotonic>>
logVars == <<calls, emitted, duplicate, guard, local>>

VARIABLES
    cache,       \* MokaUrlCache.cache: key -> Option<Option<UrlRecord>>
    pc,          \* each caller's position in its call
    key,         \* each caller's `code`
    res,         \* each caller's returned Result
    via,         \* how each caller got its result: "hit", "fetched" or "joined"
    flight,      \* a waiter's in-flight computation: the caller running the init future
    fetchCount,  \* per key: invocations of the fetch closure
    produced,    \* per key: what the latest finished fetch returned
    staggered,   \* per key: a call entered when the key was cached or a call for it had returned
    lastSet      \* per key: the record of the latest set_url, until a del or an eviction

VARIABLES
    cache_kind,  \* CachedRepository<R, C>: the cache C is "moka" or "redis"
    inner,       \* CachedRepository.inner: the records of the store
    innerGets,   \* per key: invocations of inner.get
    stale        \* the callers whose key was invalidated after their inner.get

VARIABLES
    l1_kind,     \* LayeredCache<L1, L2>: L1 is "moka" or "redis"; L2 is a Redis cache
    l1,          \* LayeredCache.l1: key -> Option<Option<UrlRecord>>
    l2,          \* LayeredCache.l2: key -> Option<UrlRecord>
    op,          \* each caller's operation on the layered cache
    arg,         \* each caller's `record` argument of set_url
    atEntry,     \* the key's L1 entry and L2 record when the call was made
    sawL2,       \* what the call's l2.get_url returned, "unread" when it made none
    disturbed,   \* since the call was made, another operation wrote the key in L1 or L2
    l2Reads,     \* per key: l2.get_url calls made on behalf of get_or_compute
    stored       \* per key: the records ever handed to the cache for the key

VARIABLES
    bloom,       \* BloomFilter.bloom: the bits of the filter that are set
    wrapped,     \* BloomFilter.cache: key -> Option<UrlRecord>, the wrapped cache
    wrapped_kind,\* BloomFilter<C>: the wrapped cache C is "moka" or "redis"
    everSet,     \* the keys wrapper.set_url has been called for
    look         \* each get_url call: what the filter said and what the wrapped cache did

VARIABLES
    fn,          \* the pure function applied last ("none" before the first)
    conf,        \* the Obfuscator: its prime and its mask
    input,       \* the argument of that application
    output       \* its result

VARIABLES
    storage,     \* InMemoryRepository.storage: the DashMap's entry for the code
    now,         \* Timestamp::now(), in whole seconds
    mpos,        \* each task's position in its repository call
    mrec,        \* each task's `record` argument of insert
    mret,        \* each task's returned Result
    wins,        \* inserts that returned Ok since the latest delete or expiry
    fresh,       \* the record of the latest insert that returned Ok, until a delete
    lost         \* a get did not return the unexpired, undeleted fresh record

callVars == <<pc, key, res, via, flight>>
codecVars == <<fn, conf, input, output>>
memVars == <<storage, now, mpos, mrec, mret, wins, fresh, lost>>
bloomVars == <<bloom, wrapped, wrapped_kind, everSet, look>>
mokaVars == <<cache, fetchCount, produced, staggered, lastSet>>
repoVars == <<cache_kind, inner, innerGets, stale>>
layerVars == <<l1_kind, l1, l2, op, arg, atEntry, sawL2, disturbed, l2Reads, stored>>

vars == <<flakeVars, logVars, callVars, mokaVars, repoVars, layerVars, bloomVars, codecVars, memVars>>

\* jiff::Timestamp: whole seconds and a sub-second part.
Timestamp(s, n) == [sec |-> s, sub |-> n]
from_second(s) == Timestamp(s, 0)
as_second(t) == t.sec

\* Ord for Timestamp.
TsLess(a, b) == a.sec < b.sec \/ (a.sec = b.sec /\ a.sub < b.sub)
TsLeq(a, b) == a = b \/ TsLess(a, b)

ClockSeconds == (0 .. MaxSec) \cup {MAX_TIMESTAMP_SECONDS + 1, MAX_TIMESTAMP_SECONDS + 2}
Times == {Timestamp(s, n) : s \in ClockSeconds, n \in 0 .. MaxSub}
StartEpochs == {0, 1}

\* A limit check that lets one second more through.
OverTimeLimitLate(elapsed) ==
    IF elapsed < 0 THEN TRUE ELSE elapsed > MAX_TIMESTAMP_SECONDS + 1

\* `elapsed as u64 > MAX_TIMESTAMP_SECONDS`: a negative i64 wraps to at least 2^63.
OverTimeLimit(elapsed) == IF elapsed < 0 THEN TRUE ELSE elapsed > MAX_TIMESTAMP_SECONDS

\* A wait_until that returns at once, whatever the clock reads.
wait_until_at_once(from, target) == {from}

\* Clock::wait_until(target) from a clock reading `from`: the readings it can
\* return at. It returns at once when the clock has reached the target, and no
\* earlier than the target otherwise.
wait_until(from, target) ==
    IF TsLeq(target, from) THEN {from} ELSE {t \in Times : TsLeq(target, t)}

\* The `now` and sequence next_id settles on, given the first clock reading
\* now0 and the guarded state: the match on state.last_elapsed_timestamp.
NextIdOutcomes(now0) ==
    IF last_elapsed_timestamp = None
    THEN {[now |-> now0, seq |-> 0]}
    ELSE LET last == last_elapsed_timestamp.val
             Caught == IF TsLess(now0, last) THEN wait_until(now0, last) ELSE {now0}
         IN UNION {
              IF as_second(now1) = as_second(last)
              THEN IF sequence < MAX_SEQUENCE
                   THEN {[now |-> now1, seq |-> sequence + 1]}
                   ELSE {[now |-> now2, seq |-> 0] :
                            now2 \in wait_until(now1, from_second(as_second(last) + 1))}
              ELSE {[now |-> now1, seq |-> 0]}
              : now1 \in Caught }

\* The body of Tinyflake::next_id, run under the state mutex.
NextIdBody ==
    \E o \in NextIdOutcomes(clock) :
        LET elapsed == as_second(o.now) - start_time IN
        /\ clock' = o.now
        /\ sequence' = o.seq
        /\ IF OverTimeLimit(elapsed)
           THEN /\ ret' = "OverTimeLimit"
                /\ UNCHANGED <<last_elapsed_timestamp, issued, flip>>
           ELSE /\ ret' = "Ok"
                /\ issued' = Some(<<elapsed, o.seq>>)
                /\ flip' = ~flip
                /\ last_elapsed_timestamp' = Some(o.now)
        /\ UNCHANGED <<start_time, monotonic>>
        /\ UNCHANGED <<callVars, mokaVars, repoVars, layerVars, bloomVars>>

\* Tinyflake::next_id.
next_id == NextIdBody /\ UNCHANGED <<logVars, codecVars, memVars>>

\* Tinyflake::next_id in a run that logs every returned ID.
next_id_logged ==
    /\ calls < MaxCalls
    /\ NextIdBody
    /\ calls' = calls + 1
    /\ emitted' = IF ret' = "Ok" THEN emitted \cup {issued'.val} ELSE emitted
    /\ duplicate' = (duplicate \/ (ret' = "Ok" /\ issued'.val \in emitted))
    /\ UNCHANGED <<guard, local, codecVars, memVars>>

\* The environment sets the clock: time passes, or the clock is stepped.
ClockSet ==
    \E t \in Times :
        /\ t # clock
        /\ clock' = t
        /\ monotonic' = (monotonic /\ TsLess(clock, t))
        /\ UNCHANGED <<start_time, last_elapsed_timestamp, sequence, ret, issued, flip>>
        /\ UNCHANGED <<logVars, codecVars, memVars, callVars, mokaVars, repoVars, layerVars, bloomVars>>

\* Tinyflake::with_clock: the epoch is not ahead of the clock.
InitFlakeState ==
    /\ clock \in Times
    /\ start_time \in StartEpochs
    /\ ~ TsLess(clock, from_second(start_time))
    /\ last_elapsed_timestamp = None
    /\ sequence = 0
    /\ ret = "NotCalled"
    /\ issued = None
    /\ flip = FALSE
    /\ monotonic = TRUE
    /\ calls = 0
    /\ emitted = {}
    /\ duplicate = FALSE
    /\ guard = None
    /\ local = [c \in Callers |-> None]

\* The generator left alone, for the specifications of the caches.
InitFlakeQuiet ==
    /\ InitFlakeState
    /\ clock = from_second(0)
    /\ start_time = 0

(***************************************************************************)
(* wormhole-generator obfuscated.rs: Obfuscator over a TinyId's 5 bytes.   *)
(* A u64 is its 8 big-endian bytes (to_be_bytes), a 40-bit value its 5.    *)
(***************************************************************************)
\* x ^ y on bytes.
RECURSIVE BitXor(_, _)
BitXor(x, y) ==
    IF x = 0 /\ y = 0 THEN 0
    ELSE (((x % 2) + (y % 2)) % 2) + 2 * BitXor(x \div 2, y \div 2)

\* x | y on bytes.
RECURSIVE BitOr(_, _)
BitOr(x, y) ==
    IF x = 0 /\ y = 0 THEN 0
    ELSE (IF x % 2 = 1 \/ y % 2 = 1 THEN 1 ELSE 0) + 2 * BitOr(x \div 2, y \div 2)

\* x & y on bytes.
RECURSIVE BitAnd(_, _)
BitAnd(x, y) ==
    IF x = 0 \/ y = 0 THEN 0
    ELSE ((x % 2) * (y % 2)) + 2 * BitAnd(x \div 2, y \div 2)

\* a ^ b and a & b on values of the same width, byte by byte.
Xor(a, b) == [i \in DOMAIN a |-> BitXor(a[i], b[i])]
And(a, b) == [i \in DOMAIN a |-> BitAnd(a[i], b[i])]

\* The k-th column of the schoolbook product of two n-byte values: the sum of
\* the products of the bytes whose weights multiply to 256^k.
RECURSIVE ColSum(_, _, _, _, _)
ColSum(a, b, n, k, i) ==
    IF i > k THEN 0 ELSE a[n - i] * b[n - (k - i)] + ColSum(a, b, n, k, i + 1)

\* The bytes k .. n-1 of the product, least significant first; what would
\* carry beyond byte n-1 is dropped.
RECURSIVE MulDigits(_, _, _, _, _)
MulDigits(a, b, n, k, carry) ==
    IF k = n THEN <<>>
    ELSE LET t == ColSum(a, b, n, k, 0) + carry
         IN <<t % 256>> \o MulDigits(a, b, n, k + 1, t \div 256)

\* a * b modulo 256^n on n-byte values.
MulMod(a, b, n) ==
    LET d == MulDigits(a, b, n, 0, 0) IN [i \in 1 .. n |-> d[n - i + 1]]

\* u64::wrapping_mul.
wrapping_mul(a, b) == MulMod(a, b, 8)

\* LOWER_40_BITS_MASK: (1 << 40) - 1.
LOWER_40_BITS_MASK == <<0, 0, 0, 255, 255, 255, 255, 255>>

\* An obfuscation that ORs the mask in.
obfuscate_or(prime, mask, raw) ==
    LET source == <<0, 0, 0, raw[1], raw[2], raw[3], raw[4], raw[5]>>
        product == wrapping_mul(source, prime)
        obfuscated == And([i \in 1 .. 8 |-> BitOr(product[i], mask[i])], LOWER_40_BITS_MASK)
    IN <<obfuscated[4], obfuscated[5], obfuscated[6], obfuscated[7], obfuscated[8]>>

\* Obfuscator::obfuscate on the bytes of id.into_bytes().
obfuscate(prime, mask, raw) ==
    LET source == <<0, 0, 0, raw[1], raw[2], raw[3], raw[4], raw[5]>>
        obfuscated == And(Xor(wrapping_mul(source, prime), mask), LOWER_40_BITS_MASK)
    IN <<obfuscated[4], obfuscated[5], obfuscated[6], obfuscated[7], obfuscated[8]>>

\* The primes and masks an Obfuscator is built with: the defaults (3 and
\* 0xDEAD_BEEF_CAFE_BABE), other odd primes below and above 2^40, and even
\* ones, which the builder accepts as well.
ObfPrimes ==
    {<<0, 0, 0, 0, 0, 0, 0, 3>>, <<0, 0, 0, 0, 0, 0, 0, 1>>, <<0, 0, 0, 0, 0, 0, 1, 1>>,
     <<255, 255, 255, 255, 255, 255, 255, 255>>, <<0, 0, 1, 0, 0, 0, 0, 5>>,
     <<0, 0, 0, 0, 0, 0, 0, 2>>, <<0, 0, 0, 0, 0, 0, 0, 0>>}
ObfMasks ==
    {<<222, 173, 190, 239, 202, 254, 186, 190>>, <<0, 0, 0, 0, 0, 0, 0, 0>>,
     <<255, 255, 255, 255, 255, 255, 255, 255>>}

\* The 5-byte values obfuscate is applied to.
RawIds ==
    [1 .. 5 -> {0, 255}] \cup
    {<<1, 2, 3, 4, 5>>, <<16, 32, 48, 64, 80>>, <<0, 0, 0, 0, 1>>, <<128, 0, 0, 0, 0>>}

\* An Obfuscator is built and no function is applied yet; each behaviour
\* applies one.
InitCodecState ==
    /\ fn = "none"
    /\ input = <<>>
    /\ output = <<>>

DefaultObfuscator ==
    [prime |-> <<0, 0, 0, 0, 0, 0, 0, 3>>, mask |-> <<222, 173, 190, 239, 202, 254, 186, 190>>]

\* The pure functions left alone, for the other specifications.
InitCodecQuiet == InitCodecState /\ conf = DefaultObfuscator

CodecFrame ==
    UNCHANGED <<flakeVars, logVars, callVars, mokaVars, repoVars, layerVars, bloomVars, memVars>>

\* obfuscator.obfuscate(id).
Obfuscate(raw) ==
    /\ fn = "none"
    /\ fn' = "obfuscate"
    /\ input' = raw
    /\ output' = obfuscate(conf.prime, conf.mask, raw)
    /\ UNCHANGED conf
    /\ CodecFrame

(***************************************************************************)
(* wormhole-tinyflake tiny_id.rs: TinyId, a #[bitfield] struct of          *)
(* timestamp: B30, sequence: B8, node_id: B2. modular_bitfield lays the    *)
(* fields out in declaration order from the least significant bit of byte  *)
(* 0 upward, bytes in little-endian order.                                 *)
(***************************************************************************)
\* A TinyId whose bytes keep only the top six bits of the sequence.
into_bytes_short_sequence(t, s, n) ==
    <<t % 256, (t \div 256) % 256, (t \div 65536) % 256,
      (t \div 16777216) % 64, (s \div 4) + 64 * n>>

\* TinyId::new().with_timestamp(t).with_sequence(s).with_node_id(n).into_bytes().
into_bytes(t, s, n) ==
    <<t % 256, (t \div 256) % 256, (t \div 65536) % 256,
      ((t \div 16777216) % 64) + 64 * (s % 4), (s \div 4) + 64 * n>>

\* TinyId::from_bytes(b) read with timestamp(), sequence() and node_id().
from_bytes(b) ==
    <<b[1] + 256 * b[2] + 65536 * b[3] + 16777216 * (b[4] % 64),
      (b[4] \div 64) + 4 * (b[5] % 64),
      b[5] \div 64>>

\* The field values the codec is applied to.
TinyTimestamps ==
    {0, 1, 255, 256, 500, 65535, 65536, 16777215, 16777216,
     MAX_TIMESTAMP_SECONDS - 1, MAX_TIMESTAMP_SECONDS}
TinySequences == {0, 1, 3, 4, 165, MAX_SEQUENCE}
TinyNodes == 0 .. 3

\* A TinyId is built from its fields and turned into its 5 bytes.
IntoBytes(t, s, n) ==
    /\ fn = "none"
    /\ fn' = "into_bytes"
    /\ input' = <<t, s, n>>
    /\ output' = into_bytes(t, s, n)
    /\ UNCHANGED conf
    /\ CodecFrame

\* The bytes just produced are read back into fields.
FromBytes ==
    /\ fn = "into_bytes"
    /\ fn' = "from_bytes"
    /\ output' = from_bytes(output)
    /\ UNCHANGED <<input, conf>>
    /\ CodecFrame

(***************************************************************************)
(* Callers, keys, records and results shared by the cache models.          *)
(***************************************************************************)
Keys == {"abc123", "code0"}
\* The keys the callers of the layered cache use.
LKeys == {"abc123"}
Records == {"https://example.com", "https://fetched.com"}
CacheErrors == {"Timeout"}

\* Result<T, CacheError>.
Ok(v) == [ok |-> TRUE, val |-> v]
Err(e) == [ok |-> FALSE, err |-> e]

\* What a fetch closure can return: Result<Option<UrlRecord>>.
FetchResults ==
    {Ok(Some(r)) : r \in Records} \cup {Ok(None)} \cup {Err(e) : e \in CacheErrors}

\* Result<()>'s value.
Unit == [unit |-> TRUE]

\* A call that has not looked a key up in the Bloom-filtered cache.
NoLook == [everSet |-> FALSE, positive |-> FALSE, delegated |-> FALSE, found |-> None]

\* No l2.get_url result.
Unread == [unread |-> TRUE]

InitCallers ==
    /\ pc = [c \in Callers |-> "idle"]
    /\ key = [c \in Callers |-> "abc123"]
    /\ res = [c \in Callers |-> Ok(None)]
    /\ via = [c \in Callers |-> "none"]
    /\ flight = [c \in Callers |-> c]

\* The repository left alone, for the other specifications.
InitRepoQuiet ==
    /\ cache_kind = "moka"
    /\ inner = [k \in Keys |-> None]
    /\ innerGets = [k \in Keys |-> 0]
    /\ stale = {}

\* LayeredCache::new over two empty caches.
InitLayerState ==
    /\ l1 = [k \in Keys |-> None]
    /\ op = [c \in Callers |-> "none"]
    /\ arg = [c \in Callers |-> "https://example.com"]
    /\ atEntry = [c \in Callers |-> [l1 |-> None, l2 |-> None]]
    /\ sawL2 = [c \in Callers |-> Unread]
    /\ disturbed = [c \in Callers |-> FALSE]
    /\ l2Reads = [k \in Keys |-> 0]

\* BloomFilter::new(config, cache): no bit of the filter is set.
InitBloomState ==
    /\ bloom = {}
    /\ everSet = {}
    /\ look = [c \in Callers |-> NoLook]

\* The Bloom-filtered cache left alone, for the other specifications.
InitBloomQuiet ==
    /\ InitBloomState
    /\ wrapped_kind = "moka"
    /\ wrapped = [k \in Keys |-> None]

\* The layered cache left alone, for the other specifications.
InitLayerQuiet ==
    /\ InitLayerState
    /\ l1_kind = "moka"
    /\ l2 = [k \in Keys |-> None]
    /\ stored = [k \in Keys |-> {}]

\* InMemoryRepository::new(): an empty DashMap; no call made yet.
InitMemState ==
    /\ storage = None
    /\ mpos = [c \in Callers |-> "idle"]
    /\ mrec = [c \in Callers |-> [original_url |-> "https://example.com", expire_at |-> None]]
    /\ mret = [c \in Callers |-> Ok(Unit)]
    /\ wins = 0
    /\ fresh = None
    /\ lost = FALSE

\* The in-memory repository left alone, for the other specifications.
InitMemQuiet == InitMemState /\ now = 0

(***************************************************************************)
(* wormhole-redirector cache/moka.rs: MokaUrlCache.                        *)
(***************************************************************************)
\* MokaUrlCache::new: an empty cache.
InitMoka ==
    /\ cache = [k \in Keys |-> None]
    /\ fetchCount = [k \in Keys |-> 0]
    /\ produced = [k \in Keys |-> Ok(None)]
    /\ staggered = [k \in Keys |-> FALSE]
    /\ lastSet = [k \in Keys |-> None]

\* Coalescing that only starts once the init future has invoked the fetch.
RunningFetch(k) == {l \in Callers : pc[l] = "fetching" /\ key[l] = k}

\* Coalescing that joins a running init future whatever its key.
RunningAnyKey(k) == {l \in Callers : pc[l] \in {"fetching", "l2_get", "l2_set", "l1_resolve"}}

\* The positions of a caller inside the init future it runs for try_get_with.
InitPcs == {"fetching", "l2_get", "l2_set", "l1_resolve"}

\* The callers whose init future for key k is running.
Running(k) == {l \in Callers : pc[l] \in InitPcs /\ key[l] = k}

\* A call for k has returned.
Returned(k) == \E d \in Callers : pc[d] = "done" /\ key[d] = k

\* A get-then-insert that never joins a running init future.
TryGetWithEntryUncoalesced(entry, running) ==
    IF entry.some THEN "hit" ELSE "init"

\* What moka's try_get_with(key, init) does on entry, as one of "hit" (the entry
\* is there: init is dropped unpolled), "join" (another caller's init future for
\* the key is running: wait for it) or "init" (run init).
TryGetWithEntry(entry, running) ==
    IF entry.some THEN "hit"
    ELSE IF running # {} THEN "join"
    ELSE "init"

\* MokaUrlCache::get_or_compute, entry: cache.try_get_with(key, async { fetch(code).await }).
GetOrCompute(c, k) ==
    /\ pc[c] = "idle"
    /\ key' = [key EXCEPT ![c] = k]
    /\ staggered' = [staggered EXCEPT ![k] = @ \/ cache[k].some \/ Returned(k)]
    /\ LET how == TryGetWithEntry(cache[k], Running(k)) IN
       \/ /\ how = "hit"
          /\ pc' = [pc EXCEPT ![c] = "done"]
          /\ res' = [res EXCEPT ![c] = Ok(cache[k].val)]
          /\ via' = [via EXCEPT ![c] = "hit"]
          /\ UNCHANGED <<flight, fetchCount>>
       \/ /\ how = "join"
          /\ pc' = [pc EXCEPT ![c] = "waiting"]
          /\ flight' = [flight EXCEPT ![c] = CHOOSE l \in Running(k) : TRUE]
          /\ via' = [via EXCEPT ![c] = "joined"]
          /\ UNCHANGED <<res, fetchCount>>
       \/ /\ how = "init"
          /\ pc' = [pc EXCEPT ![c] = "fetching"]
          /\ flight' = [flight EXCEPT ![c] = c]
          /\ via' = [via EXCEPT ![c] = "fetched"]
          /\ fetchCount' = [fetchCount EXCEPT ![k] = @ + 1]
          /\ UNCHANGED res
    /\ UNCHANGED <<cache, produced, lastSet>>
    /\ UNCHANGED <<flakeVars, logVars, codecVars, memVars, repoVars, layerVars, bloomVars>>

\* A try_get_with that caches a failed init as a negative entry.
TryGetWithStoreAll(m, k, r) ==
    [m EXCEPT ![k] = IF r.ok THEN Some(r.val) ELSE Some(None)]

\* What try_get_with leaves in the cache when init returns r: an Ok value is
\* inserted, whatever the value is; an Err is handed to the waiters and dropped.
TryGetWithStore(m, k, r) ==
    IF r.ok THEN [m EXCEPT ![k] = Some(r.val)] ELSE m

\* The init future of caller c completes with r: try_get_with stores and returns,
\* and `.map_err(|e| e.as_ref().clone())?` hands the result to the caller.
FetchDone(c, r) ==
    /\ pc[c] = "fetching"
    /\ cache' = TryGetWithStore(cache, key[c], r)
    /\ produced' = [produced EXCEPT ![key[c]] = r]
    /\ res' = [res EXCEPT ![c] = r]
    /\ pc' = [pc EXCEPT ![c] = "done"]
    /\ lastSet' = IF r.ok /\ lastSet[key[c]].some
                  THEN [lastSet EXCEPT ![key[c]].replaced = TRUE]
                  ELSE lastSet
    /\ UNCHANGED <<key, via, flight, fetchCount, staggered>>
    /\ UNCHANGED <<flakeVars, logVars, codecVars, memVars, repoVars, layerVars, bloomVars>>

\* A waiter that gives up on the computation it joined and reports a miss.
WaiterResultMiss(c) == Ok(None)

\* What a waiter of try_get_with returns once the computation it joined is over:
\* that computation's value or its (shared) error.
WaiterResult(c) == res[flight[c]]

\* A coalesced caller is woken with the result of the computation it joined.
Wake(c) ==
    /\ pc[c] = "waiting"
    /\ pc[flight[c]] = "done"
    /\ res' = [res EXCEPT ![c] = WaiterResult(c)]
    /\ pc' = [pc EXCEPT ![c] = "done"]
    /\ UNCHANGED <<key, via, flight>>
    /\ UNCHANGED mokaVars
    /\ UNCHANGED <<flakeVars, logVars, codecVars, memVars, repoVars, layerVars, bloomVars>>

\* A get_url that never finds the entry.
MokaGetUrlMiss(m, k) == Ok(None)

\* MokaUrlCache::get_url: the cached Option, or Ok(None) when there is no entry.
MokaGetUrl(m, k) == IF m[k].some THEN Ok(m[k].val) ELSE Ok(None)

\* self.cache.insert(key, Some(record.clone())): the entry is replaced.
MokaInsert(m, k, r) == [m EXCEPT ![k] = Some(Some(r))]

\* MokaUrlCache::set_url: cache.insert(key, Some(record)).
MokaSetUrl(k, r) ==
    /\ cache' = MokaInsert(cache, k, r)
    /\ lastSet' = [lastSet EXCEPT ![k] = [some |-> TRUE, val |-> r, replaced |-> FALSE]]
    /\ UNCHANGED <<fetchCount, produced, staggered>>
    /\ UNCHANGED <<flakeVars, logVars, codecVars, memVars, callVars, repoVars, layerVars, bloomVars>>

\* MokaUrlCache::del: cache.invalidate(key).
MokaDel(k) ==
    /\ cache' = [cache EXCEPT ![k] = None]
    /\ lastSet' = [lastSet EXCEPT ![k] = None]
    /\ UNCHANGED <<fetchCount, produced, staggered>>
    /\ UNCHANGED <<flakeVars, logVars, codecVars, memVars, callVars, repoVars, layerVars, bloomVars>>

\* Moka drops an entry on its own: max_capacity, time_to_live, time_to_idle.
MokaEvict(k) ==
    /\ cache[k].some
    /\ cache' = [cache EXCEPT ![k] = None]
    /\ lastSet' = [lastSet EXCEPT ![k] = None]
    /\ UNCHANGED <<fetchCount, produced, staggered>>
    /\ UNCHANGED <<flakeVars, logVars, codecVars, memVars, callVars, repoVars, layerVars, bloomVars>>

InitMokaSpec == InitFlakeQuiet /\ InitCallers /\ InitCodecQuiet /\ InitMemQuiet /\ InitMoka /\ InitRepoQuiet /\ InitLayerQuiet /\ InitBloomQuiet

NextMoka ==
    \/ \E c \in Callers, k \in Keys : GetOrCompute(c, k)
    \/ \E c \in Callers, r \in FetchResults : FetchDone(c, r)
    \/ \E c \in Callers : Wake(c)
    \/ \E k \in Keys, r \in Records : MokaSetUrl(k, r)
    \/ \E k \in Keys : MokaDel(k)
    \/ \E k \in Keys : MokaEvict(k)

SpecMoka == InitMokaSpec /\ [][NextMoka]_vars

\* The calls for k that have returned.
Done(k) == {c \in Callers : pc[c] = "done" /\ key[c] = k}

\* The calls for k that have been made.
Entered(k) == {c \in Callers : pc[c] # "idle" /\ key[c] = k}

\* C1: when every call of get_or_compute for a key was made while the key was
\* absent and before any call for it returned (the calls are concurrent), the
\* fetch closure has run exactly once and every caller that has returned
\* returned what that one fetch produced.
C1_SingleFlight ==
    \A k \in Keys :
        (~ staggered[k] /\ Entered(k) # {}) =>
            /\ fetchCount[k] = 1
            /\ \A c \in Done(k) : res[c] = produced[k]

\* C1 witness: two concurrent callers of one absent key have both returned, one
\* of them coalesced on the other's fetch.
C1_Witness ==
    \E k \in Keys :
        /\ ~ staggered[k]
        /\ Cardinality(Done(k)) >= 2
        /\ \E c \in Done(k) : via[c] = "joined"
        /\ fetchCount[k] = 1

\* C22: get_or_compute coalesces per key only: of calls made for distinct
\* missing keys (each key's calls concurrent), each key has had its own fetch,
\* exactly one; no caller waits on a fetch for another key; and a caller that
\* has returned returned what the fetch for its own key produced.
C22_PerKeyCoalescing ==
    \A c, d \in Callers :
        (/\ pc[c] # "idle" /\ pc[d] # "idle" /\ key[c] # key[d]
         /\ ~ staggered[key[c]] /\ ~ staggered[key[d]]) =>
            /\ fetchCount[key[c]] = 1 /\ fetchCount[key[d]] = 1
            /\ key[flight[c]] = key[c]
            /\ pc[c] = "done" => res[c] = produced[key[c]]

C22_Witness ==
    \E c, d \in Callers :
        /\ key[c] # key[d]
        /\ ~ staggered[key[c]] /\ ~ staggered[key[d]]
        /\ pc[c] = "done" /\ via[c] = "fetched"
        /\ res[c].ok /\ res[c].val.some /\ res[c] = produced[key[c]]
        /\ pc[d] = "fetching" /\ via[d] = "fetched"
        /\ fetchCount[key[c]] = 1 /\ fetchCount[key[d]] = 1

\* C4: get_or_compute retains no negative: the cache never holds an entry whose
\* value is None, and no call is answered None from a cached entry.
C4_NegativesNotRetained ==
    /\ \A k \in Keys : cache[k] # Some(None)
    /\ \A c \in Callers : (pc[c] = "done" /\ via[c] = "hit") => res[c] # Ok(None)

\* Every caller coalesced on a fetch that failed returns that fetch's error.
C5_ErrorsShared ==
    \A c \in Callers :
        (pc[c] = "done" /\ via[c] = "joined" /\ ~ res[flight[c]].ok) => res[c] = res[flight[c]]

\* The step that resolves a failed fetch leaves the cache as it was.
C5_ErrorsNotStored ==
    \A c \in Callers :
        (pc[c] = "fetching" /\ pc'[c] = "done" /\ ~ res'[c].ok) => cache' = cache

\* A call that finds the key absent with no fetch in flight invokes its fetch.
C5_MissFetches ==
    \A c \in Callers, k \in Keys :
        (pc[c] = "idle" /\ pc'[c] # "idle" /\ key'[c] = k /\ ~ cache[k].some /\ Running(k) = {})
            => (pc'[c] = "fetching" /\ fetchCount'[k] = fetchCount[k] + 1)

\* C5: a fetch error reaches every caller coalesced on that fetch unchanged,
\* the step that resolves the failed fetch stores nothing, and a call that finds
\* the key absent with no fetch in flight invokes its fetch.
C5_FetchErrors ==
    /\ []C5_ErrorsShared
    /\ [][C5_ErrorsNotStored /\ C5_MissFetches]_vars

\* C5 witness: a caller coalesced on a fetch that failed has returned its error.
C5_Witness ==
    \E c \in Callers :
        /\ pc[c] = "done"
        /\ via[c] = "joined"
        /\ ~ res[c].ok
        /\ res[c] = res[flight[c]]
        /\ ~ cache[key[c]].some

\* C17: after set_url(k, v), and until a del(k), a later set_url or an
\* eviction, get_url(k) returns Some(v).
C17_SetThenGet ==
    \A k \in Keys : lastSet[k].some => MokaGetUrl(cache, k) = Ok(Some(lastSet[k].val))

\* What does hold: the record set last is returned as long as no get_or_compute
\* that was in flight during the set has completed since (try_get_with inserts
\* its fetch result over the entry).
SetThenGetUnlessFetched ==
    \A k \in Keys :
        (lastSet[k].some /\ ~ lastSet[k].replaced) =>
            MokaGetUrl(cache, k) = Ok(Some(lastSet[k].val))

(***************************************************************************)
(* wormhole-redirector repository/cached.rs: CachedRepository.             *)
(***************************************************************************)
StorageErrors == {"Unavailable"}

\* What cache.get_url(code) can return: a Moka cache never fails, a Redis cache
\* can fail on the transport.
CacheGetUrl(k) ==
    {MokaGetUrl(cache, k)} \cup
    (IF cache_kind = "redis" THEN {Err(e) : e \in CacheErrors} ELSE {})

\* What cache.set_url(code, record, ttl) can return.
CacheSetUrl == {"Ok"} \cup (IF cache_kind = "redis" THEN {"Err"} ELSE {})

\* CachedRepository::new over an empty cache; the store holds any records.
InitRepo ==
    /\ cache_kind \in {"moka", "redis"}
    /\ inner \in [Keys -> {None} \cup {Some(r) : r \in Records}]
    /\ innerGets = [k \in Keys |-> 0]
    /\ stale = {}

\* A get that returns the cache's read error instead of asking the store.
RepoGetStrict(c, k) ==
    /\ pc[c] = "idle"
    /\ key' = [key EXCEPT ![c] = k]
    /\ staggered' = [staggered EXCEPT ![k] = @ \/ cache[k].some \/ Returned(k)]
    /\ \E g \in CacheGetUrl(k) :
        IF ~ g.ok \/ g.val.some
        THEN /\ pc' = [pc EXCEPT ![c] = "done"]
             /\ res' = [res EXCEPT ![c] = g]
             /\ via' = [via EXCEPT ![c] = IF g.ok THEN "hit" ELSE "cache_error"]
        ELSE /\ pc' = [pc EXCEPT ![c] = "inner"]
             /\ via' = [via EXCEPT ![c] = "miss"]
             /\ UNCHANGED res
    /\ UNCHANGED <<flight, cache, fetchCount, produced, lastSet>>
    /\ UNCHANGED <<flakeVars, logVars, codecVars, memVars, repoVars, layerVars, bloomVars>>

\* CachedRepository::get, step 1: cache.get_url(code).
RepoGet(c, k) ==
    /\ pc[c] = "idle"
    /\ key' = [key EXCEPT ![c] = k]
    /\ staggered' = [staggered EXCEPT ![k] = @ \/ cache[k].some \/ Returned(k)]
    /\ \E g \in CacheGetUrl(k) :
        IF g.ok /\ g.val.some
        THEN /\ pc' = [pc EXCEPT ![c] = "done"]
             /\ res' = [res EXCEPT ![c] = g]
             /\ via' = [via EXCEPT ![c] = "hit"]
        ELSE /\ pc' = [pc EXCEPT ![c] = "inner"]
             /\ via' = [via EXCEPT ![c] = IF g.ok THEN "miss" ELSE "cache_error"]
             /\ UNCHANGED res
    /\ UNCHANGED <<flight, cache, fetchCount, produced, lastSet>>
    /\ UNCHANGED <<flakeVars, logVars, codecVars, memVars, repoVars, layerVars, bloomVars>>

\* What inner.get(code) can return.
InnerGet(k) == {Ok(inner[k])} \cup {Err(e) : e \in StorageErrors}

\* CachedRepository::get, step 2: `self.inner.get(code).await?`.
RepoInner(c) ==
    /\ pc[c] = "inner"
    /\ innerGets' = [innerGets EXCEPT ![key[c]] = @ + 1]
    /\ \E r \in InnerGet(key[c]) :
        /\ res' = [res EXCEPT ![c] = r]
        /\ pc' = [pc EXCEPT ![c] = IF r.ok /\ r.val.some THEN "populate" ELSE "done"]
    /\ UNCHANGED <<key, via, flight>>
    /\ UNCHANGED mokaVars
    /\ UNCHANGED <<flakeVars, logVars, codecVars, memVars, cache_kind, inner, stale, layerVars, bloomVars>>

\* A get that returns the store's record without writing it to the cache.
RepoPopulateSkipped(c) ==
    /\ pc[c] = "populate"
    /\ via' = [via EXCEPT ![c] = "populated"]
    /\ pc' = [pc EXCEPT ![c] = "done"]
    /\ UNCHANGED <<key, res, flight>>
    /\ UNCHANGED mokaVars
    /\ UNCHANGED <<flakeVars, logVars, codecVars, memVars, repoVars, layerVars, bloomVars>>

\* CachedRepository::get, step 3: cache.set_url(code, record, default_ttl),
\* whose failure is logged and dropped.
RepoPopulate(c) ==
    /\ pc[c] = "populate"
    /\ \E w \in CacheSetUrl :
        /\ cache' = IF w = "Ok" THEN [cache EXCEPT ![key[c]] = Some(res[c].val)] ELSE cache
        /\ via' = [via EXCEPT ![c] = IF w = "Ok" THEN "populated" ELSE "write_failed"]
    /\ pc' = [pc EXCEPT ![c] = "done"]
    /\ UNCHANGED <<key, res, flight, fetchCount, produced, staggered, lastSet>>
    /\ UNCHANGED <<flakeVars, logVars, codecVars, memVars, repoVars, layerVars, bloomVars>>

\* CachedRepository::invalidate: cache.del(code).
RepoInvalidate(k) ==
    /\ cache' = [cache EXCEPT ![k] = None]
    /\ stale' = stale \cup {c \in Callers : pc[c] = "populate" /\ key[c] = k}
    /\ UNCHANGED <<fetchCount, produced, staggered, lastSet>>
    /\ UNCHANGED <<cache_kind, inner, innerGets>>
    /\ UNCHANGED <<flakeVars, logVars, codecVars, memVars, callVars, layerVars, bloomVars>>

InitRepoSpec == InitFlakeQuiet /\ InitCallers /\ InitCodecQuiet /\ InitMemQuiet /\ InitMoka /\ InitRepo /\ InitLayerQuiet /\ InitBloomQuiet

NextRepo ==
    \/ \E c \in Callers, k \in Keys : RepoGet(c, k)
    \/ \E c \in Callers : RepoInner(c)
    \/ \E c \in Callers : RepoPopulate(c)
    \/ \E k \in Keys : RepoInvalidate(k)
    \/ \E k \in Keys : MokaEvict(k)

SpecRepo == InitRepoSpec /\ [][NextRepo]_vars

\* C6: over a MokaUrlCache, when every get(k) was called while k was missing from
\* the cache and before any get(k) returned (the calls are concurrent), inner.get
\* has been invoked at most once for k and the callers that returned got one
\* and the same outcome.
C6_StoreSingleFlight ==
    \A k \in Keys :
        (cache_kind = "moka" /\ ~ staggered[k]) =>
            /\ innerGets[k] <= 1
            /\ \A c, d \in Done(k) : res[c] = res[d]

\* The get calls that did not end on a cache hit and have returned.
RepoFellBack == {c \in Callers : pc[c] = "done" /\ via[c] # "hit"}

\* C15: a get whose cache lookup missed or failed returns what the store holds
\* for the key, or the store's error: a cache read error and a failed cache
\* write leave a store hit a hit, and the only error returned is the store's.
C15_StoreDecides ==
    \A c \in RepoFellBack :
        /\ res[c].ok => res[c] = Ok(inner[key[c]])
        /\ ~ res[c].ok => res[c].err \in StorageErrors
        /\ via[c] = "write_failed" => (res[c].ok /\ res[c].val.some)

C15_Witness ==
    \E c, d \in Callers :
        /\ {c, d} \subseteq RepoFellBack
        /\ via[c] = "write_failed" /\ res[c] = Ok(inner[key[c]]) /\ res[c].val.some
        /\ ~ res[d].ok

\* C16: the step of get that hits the cache returns the cached record and does
\* not call the store; the step that writes the store's record v to the cache
\* leaves cache.get_url(k) returning Some(v); the step in which the store
\* returns None or an error writes nothing to the cache.
C16_Population ==
    [][\A c \in Callers :
        /\ (pc[c] = "idle" /\ pc'[c] = "done") =>
               (/\ res'[c] = MokaGetUrl(cache, key'[c]) /\ res'[c].val.some
                /\ innerGets' = innerGets /\ cache' = cache)
        /\ (pc[c] = "populate" /\ pc'[c] = "done" /\ via'[c] = "populated") =>
               (/\ res[c] = Ok(inner[key[c]]) /\ res[c].val.some
                /\ MokaGetUrl(cache', key[c]) = res[c])
        /\ (pc[c] = "inner" /\ pc'[c] = "done") =>
               (cache' = cache /\ (res'[c].ok => res'[c] = Ok(None)))
      ]_vars

C16_Witness ==
    \E c, d \in Callers :
        /\ pc[c] = "done" /\ via[c] = "populated"
        /\ pc[d] = "done" /\ via[d] = "hit" /\ key[d] = key[c] /\ res[d] = res[c]
        /\ cache[key[c]] = Some(inner[key[c]])
        /\ innerGets[key[c]] = 1

\* C36: no get writes to the cache a record it read from the store before an
\* invalidate of its key returned.
C36_InvalidateNotUndone ==
    \A c \in Callers : via[c] = "populated" => c \notin stale

(***************************************************************************)
(* wormhole-cache layered.rs: LayeredCache<L1, L2>.                        *)
(***************************************************************************)
\* What l1.get_url(code) can return: the record L1 holds or a miss, and for a
\* Redis L1 a transport error as well.
L1GetUrl(k) ==
    {MokaGetUrl(l1, k)} \cup (IF l1_kind = "redis" THEN {Err(e) : e \in CacheErrors} ELSE {})

\* What l1.set_url and l1.del can return.
L1Write == {Ok(Unit)} \cup (IF l1_kind = "redis" THEN {Err(e) : e \in CacheErrors} ELSE {})

\* An l2.get_url that answers with any record, stored or not.
L2GetUrlAny(k) ==
    {Ok(None)} \cup {Ok(Some(r)) : r \in Records} \cup {Err(e) : e \in CacheErrors}

\* What l2.get_url(code) can return.
L2GetUrl(k) == {Ok(l2[k])} \cup {Err(e) : e \in CacheErrors}

\* What l2.set_url and l2.del can return.
L2Write == {Ok(Unit)} \cup {Err(e) : e \in CacheErrors}

\* A write of key k that is the callers' in W (none: the cache's own) disturbs
\* the calls of the other callers for k that have been made.
Disturb(W, k) ==
    [d \in Callers |-> disturbed[d] \/ (d \notin W /\ pc[d] # "idle" /\ key[d] = k)]

\* A call is made: its operation, its key and the layers as it finds them.
Enter(c, o, k) ==
    /\ pc[c] = "idle"
    /\ op' = [op EXCEPT ![c] = o]
    /\ key' = [key EXCEPT ![c] = k]
    /\ atEntry' = [atEntry EXCEPT ![c] = [l1 |-> l1[k], l2 |-> l2[k]]]
    /\ staggered' = [staggered EXCEPT ![k] = @ \/ l1[k].some \/ Returned(k)]

LayerFrame == UNCHANGED <<flakeVars, logVars, codecVars, memVars, repoVars, bloomVars, cache, lastSet, l1_kind>>

\* LayeredCache::get_or_compute, entry: l1.get_or_compute(&code, ..) on a Moka L1,
\* that is l1.cache.try_get_with(key, init).
LGetOrCompute(c, k) ==
    /\ l1_kind = "moka"
    /\ Enter(c, "get_or_compute", k)
    /\ LET how == TryGetWithEntry(l1[k], Running(k)) IN
       \/ /\ how = "hit"
          /\ pc' = [pc EXCEPT ![c] = "done"]
          /\ res' = [res EXCEPT ![c] = Ok(l1[k].val)]
          /\ via' = [via EXCEPT ![c] = "hit"]
          /\ UNCHANGED flight
       \/ /\ how = "join"
          /\ pc' = [pc EXCEPT ![c] = "waiting"]
          /\ flight' = [flight EXCEPT ![c] = CHOOSE l \in Running(k) : TRUE]
          /\ via' = [via EXCEPT ![c] = "joined"]
          /\ UNCHANGED res
       \/ /\ how = "init"
          /\ pc' = [pc EXCEPT ![c] = "l2_get"]
          /\ flight' = [flight EXCEPT ![c] = c]
          /\ via' = [via EXCEPT ![c] = "led"]
          /\ UNCHANGED res
    /\ UNCHANGED <<l1, l2, arg, sawL2, disturbed, l2Reads, stored, fetchCount, produced>>
    /\ LayerFrame

\* The init future of L1, l2.get_or_compute(&c, fetch), is the default
\* UrlCache::get_or_compute on L2. Its first step: `self.get_url(code).await?`.
L2ComputeGet(c) ==
    /\ pc[c] = "l2_get"
    /\ l2Reads' = [l2Reads EXCEPT ![key[c]] = @ + 1]
    /\ \E g \in L2GetUrl(key[c]) :
        /\ sawL2' = [sawL2 EXCEPT ![c] = g]
        /\ IF g.ok /\ ~ g.val.some
           THEN /\ pc' = [pc EXCEPT ![c] = "fetching"]
                /\ via' = [via EXCEPT ![c] = "fetched"]
                /\ fetchCount' = [fetchCount EXCEPT ![key[c]] = @ + 1]
                /\ UNCHANGED res
           ELSE /\ pc' = [pc EXCEPT ![c] = "l1_resolve"]
                /\ res' = [res EXCEPT ![c] = g]
                /\ UNCHANGED <<via, fetchCount>>
    /\ UNCHANGED <<key, flight, l1, l2, op, arg, atEntry, disturbed, produced, staggered, stored>>
    /\ LayerFrame

\* Default get_or_compute on L2, second step: `fetch(code).await?` returns r.
L2ComputeFetch(c, r) ==
    /\ pc[c] = "fetching"
    /\ op[c] = "get_or_compute"
    /\ produced' = [produced EXCEPT ![key[c]] = r]
    /\ res' = [res EXCEPT ![c] = r]
    /\ pc' = [pc EXCEPT ![c] = IF r.ok /\ r.val.some THEN "l2_set" ELSE "l1_resolve"]
    /\ stored' = IF r.ok /\ r.val.some
                 THEN [stored EXCEPT ![key[c]] = @ \cup {r.val.val}]
                 ELSE stored
    /\ UNCHANGED <<key, via, flight, fetchCount, staggered>>
    /\ UNCHANGED <<l1, l2, op, arg, atEntry, sawL2, disturbed, l2Reads>>
    /\ LayerFrame

\* A default get_or_compute that returns the fetched record whether or not
\* set_url succeeded.
L2ComputeSetSwallowed(c) ==
    /\ pc[c] = "l2_set"
    /\ \E w \in L2Write :
        IF w.ok
        THEN /\ l2' = [l2 EXCEPT ![key[c]] = res[c].val]
             /\ disturbed' = Disturb({c}, key[c])
             /\ UNCHANGED res
        ELSE UNCHANGED <<res, l2, disturbed>>
    /\ pc' = [pc EXCEPT ![c] = "l1_resolve"]
    /\ UNCHANGED <<key, via, flight, fetchCount, produced, staggered>>
    /\ UNCHANGED <<l1, op, arg, atEntry, sawL2, l2Reads, stored>>
    /\ LayerFrame

\* Default get_or_compute on L2, third step: `self.set_url(code, value).await?`.
L2ComputeSet(c) ==
    /\ pc[c] = "l2_set"
    /\ \E w \in L2Write :
        IF w.ok
        THEN /\ l2' = [l2 EXCEPT ![key[c]] = res[c].val]
             /\ disturbed' = Disturb({c}, key[c])
             /\ UNCHANGED res
        ELSE /\ res' = [res EXCEPT ![c] = w]
             /\ UNCHANGED <<l2, disturbed>>
    /\ pc' = [pc EXCEPT ![c] = "l1_resolve"]
    /\ UNCHANGED <<key, via, flight, fetchCount, produced, staggered>>
    /\ UNCHANGED <<l1, op, arg, atEntry, sawL2, l2Reads, stored>>
    /\ LayerFrame

\* L1's try_get_with gets the init future's result: it stores an Ok value and
\* returns to the caller that ran the future.
L1Resolve(c) ==
    /\ pc[c] = "l1_resolve"
    /\ l1' = TryGetWithStore(l1, key[c], res[c])
    /\ disturbed' = IF res[c].ok THEN Disturb({c}, key[c]) ELSE disturbed
    /\ pc' = [pc EXCEPT ![c] = "done"]
    /\ UNCHANGED <<key, res, via, flight, fetchCount, produced, staggered>>
    /\ UNCHANGED <<l2, op, arg, atEntry, sawL2, l2Reads, stored>>
    /\ LayerFrame

\* A caller coalesced by L1 is woken with the result of the computation it joined.
LWake(c) ==
    /\ pc[c] = "waiting"
    /\ op[c] = "get_or_compute"
    /\ pc[flight[c]] = "done"
    /\ res' = [res EXCEPT ![c] = WaiterResult(c)]
    /\ pc' = [pc EXCEPT ![c] = "done"]
    /\ UNCHANGED <<key, via, flight, fetchCount, produced, staggered>>
    /\ UNCHANGED <<l1, l2, op, arg, atEntry, sawL2, disturbed, l2Reads, stored>>
    /\ LayerFrame

\* LayeredCache::get_url, first step: `self.l1.get_url(code).await?`.
LGetUrl(c, k) ==
    /\ Enter(c, "get_url", k)
    /\ \E g \in L1GetUrl(k) :
        /\ res' = [res EXCEPT ![c] = g]
        /\ pc' = [pc EXCEPT ![c] = IF g.ok /\ ~ g.val.some THEN "g_l2" ELSE "done"]
    /\ UNCHANGED <<via, flight, fetchCount, produced>>
    /\ UNCHANGED <<l1, l2, arg, sawL2, disturbed, l2Reads, stored>>
    /\ LayerFrame

\* LayeredCache::get_url, on an L1 miss: `self.l2.get_url(code).await?`.
LGetUrlL2(c) ==
    /\ pc[c] = "g_l2"
    /\ \E g \in L2GetUrl(key[c]) :
        /\ sawL2' = [sawL2 EXCEPT ![c] = g]
        /\ res' = [res EXCEPT ![c] = g]
        /\ pc' = [pc EXCEPT ![c] = IF g.ok /\ g.val.some THEN "g_backfill" ELSE "done"]
    /\ UNCHANGED <<key, via, flight, fetchCount, produced, staggered>>
    /\ UNCHANGED <<l1, l2, op, arg, atEntry, disturbed, l2Reads, stored>>
    /\ LayerFrame

\* LayeredCache::get_url, on an L2 hit: `self.l1.set_url(code, &record).await?`,
\* then Ok(Some(record)).
LGetUrlBackfill(c) ==
    /\ pc[c] = "g_backfill"
    /\ \E w \in L1Write :
        IF w.ok
        THEN /\ l1' = [l1 EXCEPT ![key[c]] = Some(res[c].val)]
             /\ disturbed' = Disturb({c}, key[c])
             /\ UNCHANGED res
        ELSE /\ res' = [res EXCEPT ![c] = w]
             /\ UNCHANGED <<l1, disturbed>>
    /\ pc' = [pc EXCEPT ![c] = "done"]
    /\ UNCHANGED <<key, via, flight, fetchCount, produced, staggered>>
    /\ UNCHANGED <<l2, op, arg, atEntry, sawL2, l2Reads, stored>>
    /\ LayerFrame

\* A set_url that goes on to L1 when the L2 write has failed.
LSetUrlIgnoringL2(c, k, r) ==
    /\ Enter(c, "set_url", k)
    /\ arg' = [arg EXCEPT ![c] = r]
    /\ \E w \in L2Write :
        /\ res' = [res EXCEPT ![c] = w]
        /\ IF w.ok
           THEN /\ l2' = [l2 EXCEPT ![k] = Some(r)]
                /\ disturbed' = Disturb({c}, k)
           ELSE UNCHANGED <<l2, disturbed>>
    /\ pc' = [pc EXCEPT ![c] = "s_l1"]
    /\ UNCHANGED <<via, flight, fetchCount, produced>>
    /\ UNCHANGED <<l1, sawL2, l2Reads, stored>>
    /\ LayerFrame

\* LayeredCache::set_url, first step: `self.l2.set_url(code, record).await?`.
LSetUrl(c, k, r) ==
    /\ Enter(c, "set_url", k)
    /\ arg' = [arg EXCEPT ![c] = r]
    /\ \E w \in L2Write :
        /\ res' = [res EXCEPT ![c] = w]
        /\ IF w.ok
           THEN /\ l2' = [l2 EXCEPT ![k] = Some(r)]
                /\ disturbed' = Disturb({c}, k)
                /\ pc' = [pc EXCEPT ![c] = "s_l1"]
           ELSE /\ pc' = [pc EXCEPT ![c] = "done"]
                /\ UNCHANGED <<l2, disturbed>>
    /\ stored' = [stored EXCEPT ![k] = @ \cup {r}]
    /\ UNCHANGED <<via, flight, fetchCount, produced>>
    /\ UNCHANGED <<l1, sawL2, l2Reads>>
    /\ LayerFrame

\* LayeredCache::set_url, second step: `self.l1.set_url(code, record).await?`.
LSetUrlL1(c) ==
    /\ pc[c] = "s_l1"
    /\ \E w \in L1Write :
        /\ res' = [res EXCEPT ![c] = w]
        /\ IF w.ok
           THEN /\ l1' = [l1 EXCEPT ![key[c]] = Some(Some(arg[c]))]
                /\ disturbed' = Disturb({c}, key[c])
           ELSE UNCHANGED <<l1, disturbed>>
    /\ pc' = [pc EXCEPT ![c] = "done"]
    /\ UNCHANGED <<key, via, flight, fetchCount, produced, staggered>>
    /\ UNCHANGED <<l2, op, arg, atEntry, sawL2, l2Reads, stored>>
    /\ LayerFrame

\* A del that reports a key L1 does not hold as an error.
LDelStrict(c, k) ==
    /\ Enter(c, "del", k)
    /\ \E w \in L1Write \cup (IF l1[k].some THEN {} ELSE {Err("NotFound")}) :
        /\ res' = [res EXCEPT ![c] = w]
        /\ IF w.ok
           THEN /\ l1' = [l1 EXCEPT ![k] = None]
                /\ disturbed' = Disturb({c}, k)
                /\ pc' = [pc EXCEPT ![c] = "d_l2"]
           ELSE /\ pc' = [pc EXCEPT ![c] = "done"]
                /\ UNCHANGED <<l1, disturbed>>
    /\ UNCHANGED <<via, flight, fetchCount, produced>>
    /\ UNCHANGED <<l2, arg, sawL2, l2Reads, stored>>
    /\ LayerFrame

\* LayeredCache::del, first step: `self.l1.del(code).await?`.
LDel(c, k) ==
    /\ Enter(c, "del", k)
    /\ \E w \in L1Write :
        /\ res' = [res EXCEPT ![c] = w]
        /\ IF w.ok
           THEN /\ l1' = [l1 EXCEPT ![k] = None]
                /\ disturbed' = Disturb({c}, k)
                /\ pc' = [pc EXCEPT ![c] = "d_l2"]
           ELSE /\ pc' = [pc EXCEPT ![c] = "done"]
                /\ UNCHANGED <<l1, disturbed>>
    /\ UNCHANGED <<via, flight, fetchCount, produced>>
    /\ UNCHANGED <<l2, arg, sawL2, l2Reads, stored>>
    /\ LayerFrame

\* A del that reports Ok whatever the L2 delete returned.
LDelL2Swallowed(c) ==
    /\ pc[c] = "d_l2"
    /\ \E w \in L2Write :
        /\ res' = [res EXCEPT ![c] = Ok(Unit)]
        /\ IF w.ok
           THEN /\ l2' = [l2 EXCEPT ![key[c]] = None]
                /\ disturbed' = Disturb({c}, key[c])
           ELSE UNCHANGED <<l2, disturbed>>
    /\ pc' = [pc EXCEPT ![c] = "done"]
    /\ UNCHANGED <<key, via, flight, fetchCount, produced, staggered>>
    /\ UNCHANGED <<l1, op, arg, atEntry, sawL2, l2Reads, stored>>
    /\ LayerFrame

\* LayeredCache::del, second step: `self.l2.del(code).await?`.
LDelL2(c) ==
    /\ pc[c] = "d_l2"
    /\ \E w \in L2Write :
        /\ res' = [res EXCEPT ![c] = w]
        /\ IF w.ok
           THEN /\ l2' = [l2 EXCEPT ![key[c]] = None]
                /\ disturbed' = Disturb({c}, key[c])
           ELSE UNCHANGED <<l2, disturbed>>
    /\ pc' = [pc EXCEPT ![c] = "done"]
    /\ UNCHANGED <<key, via, flight, fetchCount, produced, staggered>>
    /\ UNCHANGED <<l1, op, arg, atEntry, sawL2, l2Reads, stored>>
    /\ LayerFrame

\* A Moka L1 drops an entry on its own: max_capacity, time_to_live, time_to_idle.
L1Evict(k) ==
    /\ l1_kind = "moka"
    /\ l1[k].some
    /\ l1' = [l1 EXCEPT ![k] = None]
    /\ disturbed' = Disturb({}, k)
    /\ UNCHANGED <<callVars, fetchCount, produced, staggered>>
    /\ UNCHANGED <<l2, op, arg, atEntry, sawL2, l2Reads, stored>>
    /\ LayerFrame

\* LayeredCache::new(l1, l2): a fresh L1 of either kind in front of an L2 store
\* that holds whatever was written to it before.
InitLayer ==
    /\ InitLayerState
    /\ l1_kind \in {"moka", "redis"}
    /\ l2 \in {m \in [Keys -> {None} \cup {Some(r) : r \in Records}] :
                  \A k \in Keys \ LKeys : m[k] = None}
    /\ stored = [k \in Keys |-> IF l2[k].some THEN {l2[k].val} ELSE {}]

InitLayerSpec == InitFlakeQuiet /\ InitCallers /\ InitCodecQuiet /\ InitMemQuiet /\ InitMoka /\ InitRepoQuiet /\ InitLayer /\ InitBloomQuiet

NextLayer ==
    \/ \E c \in Callers, k \in LKeys : LGetOrCompute(c, k)
    \/ \E c \in Callers : L2ComputeGet(c)
    \/ \E c \in Callers, r \in FetchResults : L2ComputeFetch(c, r)
    \/ \E c \in Callers : L2ComputeSet(c)
    \/ \E c \in Callers : L1Resolve(c)
    \/ \E c \in Callers : LWake(c)
    \/ \E c \in Callers, k \in Keys : LGetUrl(c, k)
    \/ \E c \in Callers : LGetUrlL2(c)
    \/ \E c \in Callers : LGetUrlBackfill(c)
    \/ \E c \in Callers, k \in LKeys, r \in Records : LSetUrl(c, k, r)
    \/ \E c \in Callers : LSetUrlL1(c)
    \/ \E c \in Callers, k \in LKeys : LDel(c, k)
    \/ \E c \in Callers : LDelL2(c)
    \/ \E k \in LKeys : L1Evict(k)

SpecLayer == InitLayerSpec /\ [][NextLayer]_vars

(***************************************************************************)
(* Properties of the layered cache.                                        *)
(***************************************************************************)
\* The calls of LayeredCache::get_or_compute made for key k.
LCalls(k) == {c \in Callers : op[c] = "get_or_compute" /\ key[c] = k}

L1AtEntry(c) == IF atEntry[c].l1.some THEN atEntry[c].l1.val ELSE None

\* C9: a call of get_url whose layer operations succeed and that no other
\* operation's write of the key disturbs: on an L1 hit it returns L1's record
\* and makes no L2 lookup; on an L1 miss with L2 holding r it returns r and L1
\* holds r afterwards; it returns None only when both layers miss.
C9_GetUrl ==
    \A c \in Callers :
        (op[c] = "get_url" /\ pc[c] = "done" /\ res[c].ok /\ ~ disturbed[c]) =>
            /\ L1AtEntry(c).some => (res[c] = Ok(L1AtEntry(c)) /\ sawL2[c] = Unread)
            /\ (~ L1AtEntry(c).some /\ atEntry[c].l2.some) =>
                   (res[c] = Ok(atEntry[c].l2) /\ l1[key[c]] = Some(atEntry[c].l2))
            /\ res[c] = Ok(None) => (~ L1AtEntry(c).some /\ ~ atEntry[c].l2.some)

C9_Witness ==
    \E c \in Callers :
        /\ op[c] = "get_url" /\ pc[c] = "done" /\ ~ disturbed[c]
        /\ ~ L1AtEntry(c).some /\ atEntry[c].l2.some
        /\ sawL2[c] = Ok(atEntry[c].l2)
        /\ res[c] = Ok(atEntry[c].l2)
        /\ l1[key[c]] = Some(atEntry[c].l2)

\* While set_url is between its two writes, and after it has returned Ok, no
\* other operation having written the key: L2 holds the record; L1 holds what
\* it held before in between, and the record after Ok.
C10_Layers ==
    \A c \in Callers :
        (op[c] = "set_url" /\ ~ disturbed[c]) =>
            /\ pc[c] = "s_l1" => (l2[key[c]] = Some(arg[c]) /\ l1[key[c]] = atEntry[c].l1)
            /\ (pc[c] = "done" /\ res[c].ok) =>
                   (l2[key[c]] = Some(arg[c]) /\ l1[key[c]] = Some(Some(arg[c])))

\* The step of set_url in which the L2 write fails returns the error and writes
\* neither layer; no step of set_url writes L1 before L2 is written.
C10_L2Failure ==
    \A c \in Callers :
        /\ (pc[c] = "idle" /\ op'[c] = "set_url" /\ pc'[c] = "done") =>
               (~ res'[c].ok /\ l1' = l1 /\ l2' = l2)
        /\ (pc[c] = "idle" /\ op'[c] = "set_url") => l1' = l1

\* C10: set_url writes L2 before L1; when the L2 write fails it returns the
\* error and leaves L1 untouched; when it returns Ok both layers hold the record.
C10_SetUrl == []C10_Layers /\ [][C10_L2Failure]_vars

C10_Witness ==
    \E c \in Callers :
        /\ op[c] = "set_url" /\ pc[c] = "done" /\ res[c].ok /\ ~ disturbed[c]
        /\ atEntry[c].l2 # Some(arg[c])
        /\ l2[key[c]] = Some(arg[c]) /\ l1[key[c]] = Some(Some(arg[c]))

\* A del no other operation's write of the key disturbs: between its two
\* deletes L1 is empty and L2 is as it was; after Ok neither layer holds the
\* key; a layer that still holds what it held means the call returned an error.
C11_DelLayers ==
    \A c \in Callers :
        (op[c] = "del" /\ ~ disturbed[c]) =>
            /\ pc[c] = "d_l2" => (l1[key[c]] = None /\ l2[key[c]] = atEntry[c].l2)
            /\ (pc[c] = "done" /\ res[c].ok) => (l1[key[c]] = None /\ l2[key[c]] = None)
            /\ (pc[c] = "done" /\ atEntry[c].l1.some /\ l1[key[c]] = atEntry[c].l1) => ~ res[c].ok
            /\ (pc[c] = "done" /\ atEntry[c].l2.some /\ l2[key[c]] = atEntry[c].l2) => ~ res[c].ok

\* The step of del in which the L1 delete fails returns the error and leaves
\* both layers alone; no first step of del writes L2.
C11_DelL1Failure ==
    \A c \in Callers :
        /\ (pc[c] = "idle" /\ op'[c] = "del" /\ pc'[c] = "done") =>
               (~ res'[c].ok /\ l1' = l1 /\ l2' = l2)
        /\ (pc[c] = "idle" /\ op'[c] = "del") => l2' = l2

\* C11: del deletes from L1 and then from L2; it returns Ok only when both
\* deletes succeeded and the error of the failing layer otherwise; after Ok,
\* with no other operation on the key, neither layer holds the key.
C11_Del == []C11_DelLayers /\ [][C11_DelL1Failure]_vars

C11_Witness ==
    \E c \in Callers :
        /\ op[c] = "del" /\ pc[c] = "done" /\ res[c].ok /\ ~ disturbed[c]
        /\ atEntry[c].l1.some /\ atEntry[c].l2.some
        /\ l1[key[c]] = None /\ l2[key[c]] = None

\* The calls of del: an error of del is a layer's backend error, whether the
\* key is held or not; after a del that returned Ok and that nothing has
\* followed, a get_url that found both layers empty returns None.
C19_DelResults ==
    \A c \in Callers :
        (op[c] = "del" /\ pc[c] = "done") =>
            /\ ~ res[c].ok => res[c].err \in CacheErrors
            /\ \A d \in Callers :
                (/\ res[c].ok /\ ~ disturbed[c]
                 /\ op[d] = "get_url" /\ key[d] = key[c] /\ pc[d] = "done"
                 /\ atEntry[d].l1 = None /\ atEntry[d].l2 = None
                 /\ res[d].ok /\ ~ disturbed[d]) => res[d] = Ok(None)

\* The steps of del: a step of del for a key neither layer holds changes no
\* layer; the in-memory (Moka) delete never fails, so that the call goes on to
\* L2; a step of a second del that follows a del that returned Ok changes no
\* layer.
C19_DelSteps ==
    \A c \in Callers :
        (op'[c] = "del" /\ pc'[c] # pc[c]) =>
            /\ (l1[key'[c]] = None /\ l2[key'[c]] = None) => (l1' = l1 /\ l2' = l2)
            /\ (pc[c] = "idle" /\ l1_kind = "moka") => (res'[c].ok /\ pc'[c] = "d_l2")
            /\ \A d \in Callers \ {c} :
                (/\ op[d] = "del" /\ key[d] = key'[c] /\ pc[d] = "done"
                 /\ res[d].ok /\ ~ disturbed[d]) => (l1' = l1 /\ l2' = l2)

C20_Positions ==
    \A c \in Callers :
        /\ (pc[c] = "fetching" /\ op[c] = "get_or_compute") => sawL2[c] = Ok(None)
        /\ pc[c] = "l2_set" =>
               (sawL2[c] = Ok(None) /\ res[c].ok /\ res[c].val.some)
        /\ (pc[c] = "l1_resolve" /\ sawL2[c] # Ok(None)) => res[c] = sawL2[c]

\* The steps of the default get_or_compute. get_url: a hit or an error is the
\* result and f is not invoked; a miss invokes f, once. f: its result is the
\* result; Some(v) goes on to set_url, None and an error return at once; none
\* of these two steps writes the cache. set_url: on success the cache holds v
\* under the key and Some(v) is returned; on failure the error is returned and
\* the cache is unchanged. f is invoked in no other step.
C20_Steps ==
    /\ \A c \in Callers :
        /\ (pc[c] = "l2_get" /\ pc'[c] # "l2_get") =>
               /\ l2' = l2
               /\ sawL2'[c].ok => sawL2'[c] = Ok(l2[key[c]])
               /\ IF sawL2'[c] = Ok(None)
                  THEN /\ pc'[c] = "fetching"
                       /\ fetchCount' = [fetchCount EXCEPT ![key[c]] = @ + 1]
                  ELSE /\ pc'[c] = "l1_resolve"
                       /\ res'[c] = sawL2'[c]
                       /\ fetchCount' = fetchCount
        /\ (pc[c] = "fetching" /\ op[c] = "get_or_compute" /\ pc'[c] # "fetching") =>
               /\ l2' = l2 /\ fetchCount' = fetchCount
               /\ res'[c] = produced'[key[c]]
               /\ pc'[c] = IF res'[c].ok /\ res'[c].val.some THEN "l2_set" ELSE "l1_resolve"
        /\ (pc[c] = "l2_set" /\ pc'[c] # "l2_set") =>
               /\ pc'[c] = "l1_resolve" /\ fetchCount' = fetchCount
               /\ \/ res'[c] = res[c] /\ l2' = [l2 EXCEPT ![key[c]] = res[c].val]
                  \/ ~ res'[c].ok /\ res'[c].err \in CacheErrors /\ l2' = l2
    /\ fetchCount' # fetchCount =>
           \E c \in Callers : pc[c] = "l2_get" /\ pc'[c] = "fetching"

\* C20: the default get_or_compute returns the cached record on a hit without
\* invoking f; on a miss it invokes f once, stores Some(v) with set_url before
\* returning it and stores nothing for None; an error of get_url, of f or of
\* set_url is what the caller gets.
C20_DefaultGetOrCompute == []C20_Positions /\ [][C20_Steps]_vars

C20_Witness ==
    \E c \in Callers :
        /\ op[c] = "get_or_compute" /\ pc[c] = "l1_resolve"
        /\ sawL2[c] = Ok(None) /\ fetchCount[key[c]] = 1
        /\ res[c].ok /\ res[c].val.some
        /\ l2[key[c]] = res[c].val

C33_BackfillFailureIgnored ==
    \A c \in Callers :
        (op[c] = "get_url" /\ pc[c] = "done" /\ sawL2[c] \in {Ok(Some(r)) : r \in Records})
            => res[c] = sawL2[c]

\* The calls made are all finished.
Quiescent == \A c \in Callers : pc[c] \in {"idle", "done"}

\* C34: when a del of k has returned Ok, the only other calls made are
\* get_url and del calls (no set_url, no get_or_compute), and all calls are
\* finished, neither L1 nor L2 holds an entry for k.
C34_DelNotUndone ==
    \A k \in LKeys :
        (/\ \E d \in Callers :
                op[d] = "del" /\ key[d] = k /\ pc[d] = "done" /\ res[d] = Ok(Unit)
         /\ Quiescent
         /\ \A c \in Callers : pc[c] # "idle" => op[c] \in {"del", "get_url"})
            => (~ l1[k].some /\ ~ l2[k].some)

\* C35: when the calls made are set_url, get_url and del calls, all of them
\* finished and none with an error, L1 and L2 do not hold different records
\* for a key.
C35_LayersCoherent ==
    (/\ Quiescent
     /\ \A c \in Callers :
            pc[c] # "idle" => (op[c] \in {"set_url", "get_url", "del"} /\ res[c].ok))
        => \A k \in LKeys :
               (l1[k].some /\ l1[k].val.some /\ l2[k].some) => l1[k].val.val = l2[k].val

(***************************************************************************)
(* wormhole-redirector cache/bloom_filter.rs: BloomFilter<C>.              *)
(***************************************************************************)
\* The bits of the filter: bloomfilter::Bloom's bitmap.
BloomBitmap == {0, 1}

\* The bits bloomfilter::Bloom's hash functions give a key. "code0" shares its
\* bit with "abc123", so the filter can report it present when only "abc123"
\* was inserted (a false positive).
BloomBits(k) == IF k = "abc123" THEN {0, 1} ELSE {1}

\* Bloom::check: the key is possibly present when all its bits are set.
BloomCheck(f, k) == BloomBits(k) \subseteq f

\* A Bloom::set that sets no bit.
BloomInsertNothing(f, k) == f

\* Bloom::set: sets the key's bits.
BloomInsert(f, k) == f \cup BloomBits(k)

\* What self.cache.get_url(code) can return.
WrappedGetUrl(k) ==
    {Ok(wrapped[k])} \cup
    (IF wrapped_kind = "redis" THEN {Err(e) : e \in CacheErrors} ELSE {})

\* What self.cache.set_url and self.cache.del can return.
WrappedWrite ==
    {Ok(Unit)} \cup (IF wrapped_kind = "redis" THEN {Err(e) : e \in CacheErrors} ELSE {})

BloomFrame ==
    UNCHANGED <<flakeVars, logVars, codecVars, memVars, mokaVars, repoVars, via, flight, wrapped_kind,
                l1_kind, l1, l2, atEntry, sawL2, disturbed, l2Reads, stored>>

\* A get_url that asks the wrapped cache whatever the filter says.
BGetUrlUnfiltered(c, k) ==
    /\ pc[c] = "idle"
    /\ op' = [op EXCEPT ![c] = "get_url"]
    /\ key' = [key EXCEPT ![c] = k]
    /\ look' = [look EXCEPT ![c] = [everSet |-> k \in everSet, positive |-> BloomCheck(bloom, k),
                                    delegated |-> FALSE, found |-> None]]
    /\ pc' = [pc EXCEPT ![c] = "b_get"]
    /\ UNCHANGED <<res, bloom, wrapped, everSet, arg>>
    /\ BloomFrame

\* BloomFilter::get_url, the filter check under the read lock: `!guard.check(code)`
\* returns Ok(None) at once.
BGetUrl(c, k) ==
    /\ pc[c] = "idle"
    /\ op' = [op EXCEPT ![c] = "get_url"]
    /\ key' = [key EXCEPT ![c] = k]
    /\ look' = [look EXCEPT ![c] = [everSet |-> k \in everSet, positive |-> BloomCheck(bloom, k),
                                    delegated |-> FALSE, found |-> None]]
    /\ IF BloomCheck(bloom, k)
       THEN /\ pc' = [pc EXCEPT ![c] = "b_get"]
            /\ UNCHANGED res
       ELSE /\ pc' = [pc EXCEPT ![c] = "done"]
            /\ res' = [res EXCEPT ![c] = Ok(None)]
    /\ UNCHANGED <<bloom, wrapped, everSet, arg>>
    /\ BloomFrame

\* BloomFilter::get_url, the filter says possibly present: `self.cache.get_url(code).await`.
BGetUrlInner(c) ==
    /\ pc[c] = "b_get"
    /\ \E g \in WrappedGetUrl(key[c]) : res' = [res EXCEPT ![c] = g]
    /\ look' = [look EXCEPT ![c].delegated = TRUE, ![c].found = wrapped[key[c]]]
    /\ pc' = [pc EXCEPT ![c] = "done"]
    /\ UNCHANGED <<key, op, bloom, wrapped, everSet, arg>>
    /\ BloomFrame

\* BloomFilter::set_url, the insert under the write lock: `guard.set(code)`.
BSetUrl(c, k, r) ==
    /\ pc[c] = "idle"
    /\ op' = [op EXCEPT ![c] = "set_url"]
    /\ key' = [key EXCEPT ![c] = k]
    /\ arg' = [arg EXCEPT ![c] = r]
    /\ bloom' = BloomInsert(bloom, k)
    /\ everSet' = everSet \cup {k}
    /\ pc' = [pc EXCEPT ![c] = "b_set"]
    /\ UNCHANGED <<res, wrapped, look>>
    /\ BloomFrame

\* BloomFilter::set_url, then `self.cache.set_url(code, record).await`.
BSetUrlInner(c) ==
    /\ pc[c] = "b_set"
    /\ \E w \in WrappedWrite :
        /\ res' = [res EXCEPT ![c] = w]
        /\ wrapped' = IF w.ok THEN [wrapped EXCEPT ![key[c]] = Some(arg[c])] ELSE wrapped
    /\ pc' = [pc EXCEPT ![c] = "done"]
    /\ UNCHANGED <<key, op, arg, bloom, everSet, look>>
    /\ BloomFrame

\* A del that also clears the key's bits in the filter.
BDelClearing(c, k) ==
    /\ pc[c] = "idle"
    /\ op' = [op EXCEPT ![c] = "del"]
    /\ key' = [key EXCEPT ![c] = k]
    /\ \E w \in WrappedWrite :
        /\ res' = [res EXCEPT ![c] = w]
        /\ wrapped' = IF w.ok THEN [wrapped EXCEPT ![k] = None] ELSE wrapped
    /\ bloom' = bloom \ BloomBits(k)
    /\ pc' = [pc EXCEPT ![c] = "done"]
    /\ UNCHANGED <<arg, everSet, look>>
    /\ BloomFrame

\* BloomFilter::del: `self.cache.del(code).await`, the filter is left alone.
BDel(c, k) ==
    /\ pc[c] = "idle"
    /\ op' = [op EXCEPT ![c] = "del"]
    /\ key' = [key EXCEPT ![c] = k]
    /\ \E w \in WrappedWrite :
        /\ res' = [res EXCEPT ![c] = w]
        /\ wrapped' = IF w.ok THEN [wrapped EXCEPT ![k] = None] ELSE wrapped
    /\ pc' = [pc EXCEPT ![c] = "done"]
    /\ UNCHANGED <<arg, bloom, everSet, look>>
    /\ BloomFrame

\* BloomFilter has no get_or_compute of its own: UrlCache's default runs.
\* `self.get_url(code).await?`: BloomFilter::get_url, Ok(None) from the filter
\* or the wrapped cache's answer; a record or an error ends the call.
BGetOrCompute(c, k) ==
    /\ pc[c] = "idle"
    /\ op' = [op EXCEPT ![c] = "get_or_compute"]
    /\ key' = [key EXCEPT ![c] = k]
    /\ \E g \in (IF BloomCheck(bloom, k) THEN WrappedGetUrl(k) ELSE {Ok(None)}) :
        /\ res' = [res EXCEPT ![c] = g]
        /\ pc' = [pc EXCEPT ![c] = IF g.ok /\ ~ g.val.some THEN "c_fetch" ELSE "done"]
    /\ UNCHANGED <<arg, bloom, wrapped, everSet, look>>
    /\ BloomFrame

\* The default get_or_compute on a miss: `fetch(code).await?`.
BComputeFetch(c, r) ==
    /\ pc[c] = "c_fetch"
    /\ res' = [res EXCEPT ![c] = r]
    /\ pc' = [pc EXCEPT ![c] = IF r.ok /\ r.val.some THEN "c_set" ELSE "done"]
    /\ UNCHANGED <<key, op, arg, bloom, wrapped, everSet, look>>
    /\ BloomFrame

\* The default get_or_compute on Some(r): `self.set_url(code, r).await?`,
\* BloomFilter::set_url, then Ok(record).
BComputeSet(c) ==
    /\ pc[c] = "c_set"
    /\ bloom' = BloomInsert(bloom, key[c])
    /\ everSet' = everSet \cup {key[c]}
    /\ \E w \in WrappedWrite :
        /\ res' = [res EXCEPT ![c] = IF w.ok THEN res[c] ELSE w]
        /\ wrapped' = IF w.ok THEN [wrapped EXCEPT ![key[c]] = Some(res[c].val.val)]
                              ELSE wrapped
    /\ pc' = [pc EXCEPT ![c] = "done"]
    /\ UNCHANGED <<key, op, arg, look>>
    /\ BloomFrame

\* The wrapped cache drops an entry on its own: capacity or expiry.
BEvict(k) ==
    /\ wrapped[k].some
    /\ wrapped' = [wrapped EXCEPT ![k] = None]
    /\ UNCHANGED <<callVars, op, arg, bloom, everSet, look>>
    /\ BloomFrame

\* A caller whose call has returned is ready for its next call: the finished
\* call's arguments and result are dropped.
BNextCall(c) ==
    /\ pc[c] = "done"
    /\ pc' = [pc EXCEPT ![c] = "idle"]
    /\ key' = [key EXCEPT ![c] = "abc123"]
    /\ res' = [res EXCEPT ![c] = Ok(None)]
    /\ op' = [op EXCEPT ![c] = "none"]
    /\ arg' = [arg EXCEPT ![c] = "https://example.com"]
    /\ look' = [look EXCEPT ![c] = NoLook]
    /\ UNCHANGED <<bloom, wrapped, everSet>>
    /\ BloomFrame

\* BloomFilter::new(config, cache) over an empty cache of either kind.
InitBloom ==
    /\ InitBloomState
    /\ wrapped_kind \in {"moka", "redis"}
    /\ wrapped = [k \in Keys |-> None]

InitBloomSpec ==
    InitFlakeQuiet /\ InitCallers /\ InitCodecQuiet /\ InitMemQuiet /\ InitMoka /\ InitRepoQuiet /\ InitLayerQuiet /\ InitBloom

NextBloom ==
    \/ \E c \in Callers, k \in Keys : BGetUrl(c, k)
    \/ \E c \in Callers : BGetUrlInner(c)
    \/ \E c \in Callers, k \in Keys, r \in Records : BSetUrl(c, k, r)
    \/ \E c \in Callers : BSetUrlInner(c)
    \/ \E c \in Callers, k \in Keys : BDel(c, k)
    \/ \E k \in Keys : BEvict(k)
    \/ \E c \in Callers : BNextCall(c)

SpecBloom == InitBloomSpec /\ [][NextBloom]_vars

\* The callers' get_or_compute calls through the wrapper, with del calls and
\* the wrapped cache's evictions.
NextBloomCompute ==
    \/ \E c \in Callers, k \in Keys : BGetOrCompute(c, k)
    \/ \E c \in Callers, r \in FetchResults : BComputeFetch(c, r)
    \/ \E c \in Callers : BComputeSet(c)
    \/ \E c \in Callers, k \in Keys : BDel(c, k)
    \/ \E k \in Keys : BEvict(k)
    \/ \E c \in Callers : BNextCall(c)

SpecBloomCompute == InitBloomSpec /\ [][NextBloomCompute]_vars

\* The get_url calls of the Bloom-filtered cache that have been made.
BLookups == {c \in Callers : op[c] = "get_url" /\ pc[c] # "idle"}

C14_Answered ==
    \A c \in BLookups :
        ~ look[c].positive => (pc[c] = "done" /\ res[c] = Ok(None) /\ ~ look[c].delegated)

\* The step of get_url in which the filter reports the key absent returns and
\* leaves the wrapped cache and the filter as they were.
C14_Frame ==
    \A c \in Callers, k \in Keys :
        (pc[c] = "idle" /\ pc'[c] # "idle" /\ op'[c] = "get_url" /\ key'[c] = k
            /\ ~ BloomCheck(bloom, k))
        => (pc'[c] = "done" /\ res'[c] = Ok(None) /\ wrapped' = wrapped /\ bloom' = bloom)

\* C14: when the filter reports the key absent, get_url returns Ok(None), the
\* wrapped cache's get_url is not called and the wrapped cache is unchanged.
C14_ShortCircuit == []C14_Answered /\ [][C14_Frame]_vars

C14_Witness ==
    \E c \in BLookups :
        /\ pc[c] = "done" /\ ~ look[c].positive /\ ~ look[c].delegated
        /\ res[c] = Ok(None)
        /\ \E k \in Keys : wrapped[k].some

\* C38: over a MokaUrlCache, two get_or_compute calls through the wrapper
\* that are under way at once for the same key have not both invoked fetch.
C38_WrapperSingleFlight ==
    wrapped_kind = "moka" =>
        \A c \in Callers, d \in Callers :
            (c # d /\ key[c] = key[d]) => ~ (pc[c] = "c_set" /\ pc[d] = "c_set")

(***************************************************************************)
(* wormhole-shortener repository/memory.rs: InMemoryRepository, the calls  *)
(* of several tasks for one code. A DashMap guard is held within one step. *)
(***************************************************************************)
\* The records handed to insert: expire_at is None or a second.
MemRecords == [original_url : Records, expire_at : {None} \cup {Some(t) : t \in 0 .. MaxSec}]

\* Entry::is_expired.
is_expired(e) == e.expire_at.some /\ now >= e.expire_at.val

MemFrame ==
    UNCHANGED <<flakeVars, logVars, callVars, mokaVars, repoVars, layerVars, bloomVars,
                codecVars>>

\* insert, up to the end of the check: `self.storage.get(&key)`, and
\* Err(AliasConflict) when the entry is there and has not expired.
MemInsertCheck(c, record) ==
    /\ mpos[c] = "idle"
    /\ mrec' = [mrec EXCEPT ![c] = record]
    /\ IF storage.some /\ ~ is_expired(storage.val)
       THEN /\ mret' = [mret EXCEPT ![c] = Err("AliasConflict")]
            /\ UNCHANGED mpos
       ELSE /\ mpos' = [mpos EXCEPT ![c] = "insert"]
            /\ UNCHANGED mret
    /\ UNCHANGED <<storage, now, wins, fresh, lost>>
    /\ MemFrame

\* insert, after the check: `self.storage.insert(key, entry); Ok(())`.
MemInsertPut(c) ==
    /\ mpos[c] = "insert"
    /\ storage' = Some(mrec[c])
    /\ mret' = [mret EXCEPT ![c] = Ok(Unit)]
    /\ mpos' = [mpos EXCEPT ![c] = "idle"]
    /\ wins' = IF is_expired(mrec[c]) THEN 0 ELSE wins + 1
    /\ fresh' = Some(mrec[c])
    /\ UNCHANGED <<now, mrec, lost>>
    /\ MemFrame

\* get, up to `drop(entry)`: Ok(None) without an entry, the record of an
\* entry that has not expired, and on to the removal of an expired one.
MemGet(c) ==
    /\ mpos[c] = "idle"
    /\ IF ~ storage.some
       THEN /\ mret' = [mret EXCEPT ![c] = Ok(None)]
            /\ UNCHANGED mpos
       ELSE IF is_expired(storage.val)
       THEN /\ mpos' = [mpos EXCEPT ![c] = "get_remove"]
            /\ UNCHANGED mret
       ELSE /\ mret' = [mret EXCEPT ![c] = Ok(Some(storage.val))]
            /\ UNCHANGED mpos
    /\ lost' = (lost \/ (/\ fresh.some /\ ~ is_expired(fresh.val)
                         /\ (~ storage.some \/ storage.val # fresh.val)))
    /\ UNCHANGED <<storage, now, mrec, wins, fresh>>
    /\ MemFrame

\* exists, up to `drop(entry)`.
MemExists(c) ==
    /\ mpos[c] = "idle"
    /\ IF ~ storage.some
       THEN /\ mret' = [mret EXCEPT ![c] = Ok(FALSE)]
            /\ UNCHANGED mpos
       ELSE IF is_expired(storage.val)
       THEN /\ mpos' = [mpos EXCEPT ![c] = "exists_remove"]
            /\ UNCHANGED mret
       ELSE /\ mret' = [mret EXCEPT ![c] = Ok(TRUE)]
            /\ UNCHANGED mpos
    /\ UNCHANGED <<storage, now, mrec, wins, fresh, lost>>
    /\ MemFrame

\* get and exists, after `drop(entry)`: `self.storage.remove(key)`, whatever
\* the entry is by now, and Ok(None) or Ok(false).
MemRemove(c) ==
    /\ mpos[c] \in {"get_remove", "exists_remove"}
    /\ storage' = None
    /\ mret' = [mret EXCEPT ![c] = IF mpos[c] = "get_remove" THEN Ok(None) ELSE Ok(FALSE)]
    /\ mpos' = [mpos EXCEPT ![c] = "idle"]
    /\ wins' = 0
    /\ UNCHANGED <<now, mrec, fresh, lost>>
    /\ MemFrame

\* delete: `Ok(self.storage.remove(code.as_str()).is_some())`.
MemDelete(c) ==
    /\ mpos[c] = "idle"
    /\ storage' = None
    /\ mret' = [mret EXCEPT ![c] = Ok(storage.some)]
    /\ wins' = 0
    /\ fresh' = None
    /\ UNCHANGED <<now, mpos, mrec, lost>>
    /\ MemFrame

\* Time passes: Timestamp::now() reads the next second; the inserts before
\* an entry expired no longer count.
MemTick ==
    /\ now < MaxSec
    /\ now' = now + 1
    /\ wins' = IF storage.some /\ storage.val.expire_at = Some(now + 1) THEN 0 ELSE wins
    /\ UNCHANGED <<storage, mpos, mrec, mret, fresh, lost>>
    /\ MemFrame

InitMem ==
    /\ InitFlakeQuiet /\ InitCallers /\ InitCodecQuiet /\ InitMoka /\ InitRepoQuiet
    /\ InitLayerQuiet /\ InitBloomQuiet
    /\ InitMemState
    /\ now = 0

NextMem ==
    \/ \E c \in Callers, record \in MemRecords : MemInsertCheck(c, record)
    \/ \E c \in Callers : MemInsertPut(c)
    \/ \E c \in Callers : MemGet(c)
    \/ \E c \in Callers : MemExists(c)
    \/ \E c \in Callers : MemRemove(c)
    \/ \E c \in Callers : MemDelete(c)
    \/ MemTick

SpecMem == InitMem /\ [][NextMem]_vars

\* C32: among the inserts of the code with no delete or expiry in between,
\* at most one returns Ok, and when one did and no call is under way the
\* stored record is the record of that call.
C32_OneInsertWins ==
    /\ wins <= 1
    /\ (wins = 1 /\ \A c \in Callers : mpos[c] = "idle") => storage = fresh

\* C37: a get of the code returns the record of the latest insert that
\* returned Ok, as long as that record has not expired and was not deleted.
C37_FreshRecordKept == ~ lost

(***************************************************************************)
(* Specifications of the generator.                                        *)
(***************************************************************************)
InitFlake == InitFlakeState /\ InitCallers /\ InitCodecQuiet /\ InitMemQuiet /\ InitMoka /\ InitRepoQuiet /\ InitLayerQuiet /\ InitBloomQuiet

NextFlake == next_id \/ ClockSet

SpecFlake == InitFlake /\ [][NextFlake]_vars

NextFlakeLogged == next_id_logged \/ ClockSet

SpecFlakeLogged == InitFlake /\ [][NextFlakeLogged]_vars

\* Lexicographic order of (timestamp, sequence) pairs.
PairLess(a, b) == a[1] < b[1] \/ (a[1] = b[1] /\ a[2] < b[2])

\* C24: every ID next_id returns carries, as its timestamp, the whole seconds
\* from start_epoch to the clock reading of its emission, and that is at most
\* 2^30 - 1; a call that returns OverTimeLimit read the clock beyond that limit
\* and emits nothing.
C24_OverTimeLimit ==
    [][/\ flip' # flip =>
           /\ ret' = "Ok"
           /\ issued'.val[1] = as_second(clock') - start_time
           /\ issued'.val[1] >= 0 /\ issued'.val[1] <= MAX_TIMESTAMP_SECONDS
       /\ (ret' = "OverTimeLimit" /\ ret # "OverTimeLimit") =>
           /\ ~ (as_second(clock') - start_time \in 0 .. MAX_TIMESTAMP_SECONDS)
           /\ issued' = issued /\ flip' = flip
      ]_vars

\* C24 witness: an ID was emitted in the last second of the range, and the call
\* after it, one second later, failed.
C24_Witness ==
    /\ ret = "OverTimeLimit"
    /\ issued.some /\ issued.val[1] = MAX_TIMESTAMP_SECONDS
    /\ as_second(clock) - start_time > MAX_TIMESTAMP_SECONDS

\* While no failed call has reset the sequence, the emission that follows the
\* 256th ID of a second has sequence 0 and a later timestamp.
ExhaustionNextCall ==
    [][(flip' # flip /\ issued.some /\ issued.val[2] = MAX_SEQUENCE
            /\ sequence = MAX_SEQUENCE) =>
          (issued'.val[2] = 0 /\ issued'.val[1] >= issued.val[1] + 1)]_vars

\* C25: once the 256 IDs of a second t (sequence 0..=255) have been emitted,
\* the next emission waited for second t+1: it has sequence 0 and a timestamp
\* of at least t+1, so that no 257th ID is emitted for second t.
C25_SequenceExhaustion ==
    [][(flip' # flip /\ issued.some /\ issued.val[2] = MAX_SEQUENCE) =>
          (issued'.val[2] = 0 /\ issued'.val[1] >= issued.val[1] + 1)]_vars

\* While the stored sequence is that of the latest ID, a call that finds the
\* clock behind the latest emission emits no earlier than it, with a timestamp
\* not below the latest ID's and, in the same second, the sequence after it.
RegressNextCall ==
    [][(/\ flip' # flip /\ issued.some /\ last_elapsed_timestamp.some
        /\ TsLess(clock, last_elapsed_timestamp.val)
        /\ sequence = issued.val[2]) =>
          /\ ~ TsLess(clock', last_elapsed_timestamp.val)
          /\ issued'.val[1] >= issued.val[1]
          /\ issued'.val[1] = issued.val[1] => issued'.val[2] = issued.val[2] + 1]_vars

\* C26: a call that finds the clock behind the time of the latest emitted ID
\* waits until the clock has caught up with it: the ID it emits is emitted no
\* earlier than that time, its timestamp is not lower than the latest ID's,
\* and in the same second its sequence is the latest sequence + 1.
C26_ClockRegress ==
    [][(/\ flip' # flip /\ issued.some /\ last_elapsed_timestamp.some
        /\ TsLess(clock, last_elapsed_timestamp.val)) =>
          /\ ~ TsLess(clock', last_elapsed_timestamp.val)
          /\ issued'.val[1] >= issued.val[1]
          /\ issued'.val[1] = issued.val[1] => issued'.val[2] = issued.val[2] + 1]_vars

(***************************************************************************)
(* wormhole-core shortcode.rs: ShortCode::new. A string is the sequence of *)
(* its chars; "U+00E9" is a letter outside ASCII, two bytes in UTF-8.      *)
(***************************************************************************)
MIN_LENGTH == 3
MAX_LENGTH == 32

Chars == {"a", "Z", "7", "-", "_", " ", "/", "!", "U+00E9"}

\* char::is_ascii_alphanumeric.
is_ascii_alphanumeric(c) == c \in {"a", "Z", "7"}

\* char::len_utf8.
len_utf8(c) == IF c = "U+00E9" THEN 2 ELSE 1

\* str::len: the length in bytes.
RECURSIVE str_len(_)
str_len(code) == IF code = <<>> THEN 0 ELSE len_utf8(Head(code)) + str_len(Tail(code))

\* A validation whose lower length bound is exclusive.
validate_exclusive(code) ==
    IF str_len(code) <= MIN_LENGTH \/ str_len(code) > MAX_LENGTH
    THEN Err("InvalidShortCode")
    ELSE IF ~ \A i \in DOMAIN code :
                is_ascii_alphanumeric(code[i]) \/ code[i] = "-" \/ code[i] = "_"
    THEN Err("InvalidShortCode")
    ELSE Ok(Unit)

\* ShortCode::validate.
validate(code) ==
    IF str_len(code) < MIN_LENGTH \/ str_len(code) > MAX_LENGTH
    THEN Err("InvalidShortCode")
    ELSE IF ~ \A i \in DOMAIN code :
                is_ascii_alphanumeric(code[i]) \/ code[i] = "-" \/ code[i] = "_"
    THEN Err("InvalidShortCode")
    ELSE Ok(Unit)

\* ShortCode::new(code): `Self::validate(&code)?; Ok(Self::Custom(code))`.
ShortCode_new(code) ==
    LET v == validate(code) IN
    IF v.ok THEN Ok([variant |-> "Custom", code |-> code]) ELSE v

\* ShortCode::as_str on a Custom code.
as_str(sc) == sc.code

\* The strings ShortCode::new is applied to: every string of up to 3 chars,
\* and a char repeated, alone or followed by another, around both bounds.
CodeStrings ==
    UNION {[1 .. n -> Chars] : n \in 0 .. MIN_LENGTH} \cup
    {[i \in 1 .. n |-> c] : n \in {MIN_LENGTH + 1, MAX_LENGTH - 1, MAX_LENGTH, MAX_LENGTH + 1},
                            c \in Chars} \cup
    {[i \in 1 .. n |-> IF i = n THEN c ELSE "a"] : n \in {MAX_LENGTH, MAX_LENGTH + 1},
                                                   c \in Chars}

ShortCodeNew(code) ==
    /\ fn = "none"
    /\ fn' = "ShortCode::new"
    /\ input' = code
    /\ output' = ShortCode_new(code)
    /\ UNCHANGED conf
    /\ CodecFrame

\* #[derive(PartialEq, Eq)] on enum ShortCode: equal when the variants are the
\* same and their fields are equal (SmolStr and String compare as strings).
ShortCode_eq(a, b) == a.variant = b.variant /\ a.code = b.code

\* #[derive(Hash)] on enum ShortCode: what is written to the Hasher, the
\* discriminant of the variant and then the field, hashed as a string.
ShortCode_hash(a) == <<IF a.variant = "Generated" THEN 0 ELSE 1, a.code>>

\* Generated codes are base58 texts, Custom codes any text (new_unchecked).
ShortCodes ==
    [variant : {"Generated"}, code : {<<"a", "Z", "7">>, <<"7", "a", "Z", "a">>}] \cup
    [variant : {"Custom"}, code : {<<"a", "Z", "7">>, <<"7", "a", "Z", "a">>, <<"a", "-", "7">>}]

\* a == b, and the Hasher inputs of a and of b.
ShortCodeCompare(a, b) ==
    /\ fn = "none"
    /\ fn' = "ShortCode::eq"
    /\ input' = <<a, b>>
    /\ output' = [eq |-> ShortCode_eq(a, b), hash |-> <<ShortCode_hash(a), ShortCode_hash(b)>>]
    /\ UNCHANGED conf
    /\ CodecFrame

(***************************************************************************)
(* The pure functions: obfuscation, the TinyId codec, ShortCode::new.      *)
(***************************************************************************)
InitCodec ==
    /\ InitFlakeQuiet /\ InitCallers /\ InitMoka /\ InitRepoQuiet /\ InitLayerQuiet
    /\ InitBloomQuiet /\ InitMemQuiet
    /\ InitCodecState
    /\ conf \in [prime : ObfPrimes, mask : ObfMasks]

NextCodec ==
    \/ \E raw \in RawIds : Obfuscate(raw)
    \/ \E t \in TinyTimestamps, s \in TinySequences, n \in TinyNodes : IntoBytes(t, s, n)
    \/ FromBytes
    \/ \E code \in CodeStrings : ShortCodeNew(code)
    \/ \E a \in ShortCodes, b \in ShortCodes : ShortCodeCompare(a, b)

SpecCodec == InitCodec /\ [][NextCodec]_vars

\* The low 5 bytes of a u64.
Low40(a) == <<a[4], a[5], a[6], a[7], a[8]>>

\* 2 - a modulo 2^40: the complement of a plus 3.
RECURSIVE AddSmall(_, _, _)
AddSmall(a, i, c) ==
    IF i = 0 THEN a
    ELSE LET t == a[i] + c IN AddSmall([a EXCEPT ![i] = t % 256], i - 1, t \div 256)
TwoMinus(a) == AddSmall([i \in 1 .. 5 |-> 255 - a[i]], 5, 3)

\* The inverse of an odd p modulo 2^40, by Newton's iteration x <- x (2 - p x),
\* which doubles the number of correct low bits from the 3 of x = p.
NewtonStep(p, x) == MulMod(x, TwoMinus(MulMod(p, x, 5)), 5)
InverseMod40(p) == NewtonStep(p, NewtonStep(p, NewtonStep(p, NewtonStep(p, p))))

\* C27: for an odd prime and any mask, obfuscate is a bijection on the 40-bit
\* values: (output XOR mask) times the inverse of prime modulo 2^40 is the
\* input, and no other input gives the same output.
C27_ObfuscateBijective ==
    (fn = "obfuscate" /\ conf.prime[8] % 2 = 1) =>
        LET inv == InverseMod40(Low40(conf.prime)) IN
        /\ MulMod(Low40(conf.prime), inv, 5) = <<0, 0, 0, 0, 1>>
        /\ MulMod(Xor(output, Low40(conf.mask)), inv, 5) = input
        /\ \A other \in RawIds \ {input} :
               obfuscate(conf.prime, conf.mask, other) # output

C27_Witness ==
    /\ fn = "obfuscate"
    /\ conf.prime = <<0, 0, 1, 0, 0, 0, 0, 5>>
    /\ conf.mask = <<222, 173, 190, 239, 202, 254, 186, 190>>
    /\ input = <<16, 32, 48, 64, 80>>
    /\ output # input
    /\ MulMod(Xor(output, Low40(conf.mask)), InverseMod40(Low40(conf.prime)), 5) = input

\* C28: the fields read back from the 5 bytes of a TinyId built from (t, s, n)
\* are (t, s, n), and the bytes are five values of 0 .. 255.
C28_CodecRoundTrip ==
    /\ fn = "into_bytes" => (Len(output) = 5 /\ \A i \in 1 .. 5 : output[i] \in 0 .. 255)
    /\ fn = "from_bytes" => output = input

C28_Witness ==
    /\ fn = "from_bytes"
    /\ input = <<MAX_TIMESTAMP_SECONDS - 1, 165, 2>>
    /\ output = input

\* The 5 bytes that hold t in bits 0..=29, s in bits 30..=37 and n in bits
\* 38..=39, bit 0 being the most significant bit of byte 0.
BigEndianBytes(t, s, n) ==
    <<t \div 4194304, (t \div 16384) % 256, (t \div 64) % 256,
      4 * (t % 64) + (s \div 64), 4 * (s % 64) + n>>

\* a < b as big-endian numbers.
RECURSIVE BytesLess(_, _)
BytesLess(a, b) ==
    IF a = <<>> THEN FALSE
    ELSE Head(a) < Head(b) \/ (Head(a) = Head(b) /\ BytesLess(Tail(a), Tail(b)))

\* C29: the 5 bytes of a TinyId are the big-endian packing with the timestamp
\* in the top 30 bits, then the sequence, then the node; so for equal node and
\* sequence a larger timestamp gives a larger big-endian value.
C29_BigEndianLayout ==
    fn = "into_bytes" =>
        /\ output = BigEndianBytes(input[1], input[2], input[3])
        /\ \A t \in TinyTimestamps :
               t < input[1] => BytesLess(into_bytes(t, input[2], input[3]), output)

\* C30: ShortCode::new(s) succeeds exactly when s has between 3 and 32 chars,
\* all of them in [A-Za-z0-9_-]; the result is then Custom, as_str() gives s
\* back, and ShortCode::new accepts that string again.
C30_ShortCodeNew ==
    fn = "ShortCode::new" =>
        /\ output.ok <=>
               /\ Len(input) >= 3 /\ Len(input) <= 32
               /\ \A i \in 1 .. Len(input) : input[i] \in {"a", "Z", "7", "-", "_"}
        /\ output.ok =>
               /\ output.val.variant = "Custom"
               /\ as_str(output.val) = input
               /\ ShortCode_new(as_str(output.val)).ok

C30_Witness ==
    /\ fn = "ShortCode::new"
    /\ Len(input) = 32 /\ input[32] = "_"
    /\ output.ok /\ as_str(output.val) = input

\* C31: two ShortCode values with the same as_str() text compare equal and
\* feed the same input to a Hasher, whatever their variants.
C31_EqualityOverAsStr ==
    (fn = "ShortCode::eq" /\ as_str(input[1]) = as_str(input[2])) =>
        /\ output.eq
        /\ output.hash[1] = output.hash[2]

(***************************************************************************)
(* Tinyflake::next_id called from several threads.                         *)
(***************************************************************************)
ThreadFrame ==
    UNCHANGED <<key, res, via, flight, mokaVars, repoVars, layerVars, bloomVars, codecVars, memVars>>

\* `self.state.lock()`: the thread blocks until the guard is free.
NextIdLock(c) ==
    /\ pc[c] = "idle"
    /\ calls < MaxCalls
    /\ guard = None
    /\ guard' = Some(c)
    /\ pc' = [pc EXCEPT ![c] = "locked"]
    /\ calls' = calls + 1
    /\ UNCHANGED <<flakeVars, emitted, duplicate, local>>
    /\ ThreadFrame

\* `let mut now = self.clock.now()` and the match on
\* state.last_elapsed_timestamp, which waits on the clock and writes
\* state.sequence.
NextIdMatch(c) ==
    /\ pc[c] = "locked"
    /\ \E o \in NextIdOutcomes(clock) :
        /\ clock' = o.now
        /\ sequence' = o.seq
        /\ local' = [local EXCEPT ![c] = Some(o)]
    /\ pc' = [pc EXCEPT ![c] = "matched"]
    /\ UNCHANGED <<start_time, last_elapsed_timestamp, ret, issued, flip, monotonic>>
    /\ UNCHANGED <<calls, emitted, duplicate, guard>>
    /\ ThreadFrame

\* The OverTimeLimit check, the TinyId, `state.last_elapsed_timestamp =
\* Some(now)` and the return, which drops the guard.
NextIdReturn(c) ==
    /\ pc[c] = "matched"
    /\ LET o == local[c].val
           elapsed == as_second(o.now) - start_time IN
       IF OverTimeLimit(elapsed)
       THEN /\ ret' = "OverTimeLimit"
            /\ UNCHANGED <<last_elapsed_timestamp, issued, flip, emitted, duplicate>>
       ELSE /\ ret' = "Ok"
            /\ issued' = Some(<<elapsed, o.seq>>)
            /\ flip' = ~flip
            /\ last_elapsed_timestamp' = Some(o.now)
            /\ emitted' = emitted \cup {<<elapsed, o.seq>>}
            /\ duplicate' = (duplicate \/ <<elapsed, o.seq>> \in emitted)
    /\ guard' = None
    /\ local' = [local EXCEPT ![c] = None]
    /\ pc' = [pc EXCEPT ![c] = "idle"]
    /\ UNCHANGED <<clock, start_time, sequence, monotonic, calls>>
    /\ ThreadFrame

NextFlakeThreads ==
    \/ \E c \in Callers : NextIdLock(c)
    \/ \E c \in Callers : NextIdMatch(c)
    \/ \E c \in Callers : NextIdReturn(c)
    \/ ClockSet

SpecFlakeThreads == InitFlake /\ [][NextFlakeThreads]_vars

\* The guard is held by the one thread inside next_id.
GuardExcludes ==
    \A c \in Callers : pc[c] # "idle" <=> guard = Some(c)

\* While the clock has never gone backward, the IDs come out strictly
\* increasing in the order the threads took the guard.
SerializedWhileMonotonic ==
    [][(monotonic' /\ flip' # flip /\ issued.some) => PairLess(issued.val, issued'.val)]_vars

\* C23: next_id calls from several threads are serialized by the guard: the
\* returned IDs contain no duplicates and come out, in the order the calls took
\* the guard, strictly increasing in (timestamp, sequence).
C23_SerializedByGuard ==
    /\ [](~ duplicate)
    /\ [][(flip' # flip /\ issued.some) => PairLess(issued.val, issued'.val)]_vars

(***************************************************************************)
(* Tinyflake::next_id called from several threads, with the blocking made  *)
(* explicit: a thread blocks in `self.state.lock()` until the guard is     *)
(* free and in SystemClock::wait_until until the clock reads the target.   *)
(***************************************************************************)
\* A thread calls next_id and reaches `self.state.lock()`; the threads make
\* as many calls as there are threads.
NextIdCall(c) ==
    /\ pc[c] = "idle"
    /\ calls < NCallers
    /\ pc' = [pc EXCEPT ![c] = "calling"]
    /\ calls' = calls + 1
    /\ UNCHANGED <<flakeVars, emitted, duplicate, guard, local>>
    /\ ThreadFrame

\* `self.state.lock()` returns the guard once no thread holds it.
NextIdAcquire(c) ==
    /\ pc[c] = "calling"
    /\ guard = None
    /\ guard' = Some(c)
    /\ pc' = [pc EXCEPT ![c] = "locked"]
    /\ UNCHANGED <<flakeVars, calls, emitted, duplicate, local>>
    /\ ThreadFrame

\* The match on state.last_elapsed_timestamp with its waits over: each
\* wait_until of the call returns at the present reading of the clock, its
\* loop having found `now >= target`. Until then the thread sleeps.
NextIdWaited(c) == NextIdMatch(c) /\ clock' = clock

\* A return that keeps the guard locked when it returns Err(OverTimeLimit).
NextIdFinishHolding(c) ==
    /\ pc[c] = "matched"
    /\ LET o == local[c].val
           elapsed == as_second(o.now) - start_time IN
       IF OverTimeLimit(elapsed)
       THEN /\ ret' = "OverTimeLimit"
            /\ UNCHANGED <<last_elapsed_timestamp, guard>>
       ELSE /\ ret' = "Ok"
            /\ last_elapsed_timestamp' = Some(o.now)
            /\ guard' = None
    /\ local' = [local EXCEPT ![c] = None]
    /\ pc' = [pc EXCEPT ![c] = "idle"]
    /\ UNCHANGED <<clock, start_time, sequence, monotonic, issued, flip>>
    /\ UNCHANGED <<calls, emitted, duplicate>>
    /\ ThreadFrame

\* The OverTimeLimit check, `state.last_elapsed_timestamp = Some(now)` and
\* the return of Err(OverTimeLimit) or Ok(id), which drops the guard; the
\* IDs returned are not logged.
NextIdFinish(c) ==
    /\ pc[c] = "matched"
    /\ LET o == local[c].val
           elapsed == as_second(o.now) - start_time IN
       IF OverTimeLimit(elapsed)
       THEN /\ ret' = "OverTimeLimit"
            /\ UNCHANGED last_elapsed_timestamp
       ELSE /\ ret' = "Ok"
            /\ last_elapsed_timestamp' = Some(o.now)
    /\ guard' = None
    /\ local' = [local EXCEPT ![c] = None]
    /\ pc' = [pc EXCEPT ![c] = "idle"]
    /\ UNCHANGED <<clock, start_time, sequence, monotonic, issued, flip>>
    /\ UNCHANGED <<calls, emitted, duplicate>>
    /\ ThreadFrame

\* Time advances to the clock's next reading.
ClockAdvances ==
    /\ ClockSet
    /\ TsLess(clock, clock')
    /\ \A t \in Times : ~ (TsLess(clock, t) /\ TsLess(t, clock'))

\* A generator with epoch 0 that may have issued IDs before: the state is
\* the one after construction, or the one after the ID with the last sequence
\* number of the second the clock reads.
InitFlakeFair ==
    /\ clock \in Times
    /\ start_time = 0
    /\ \/ last_elapsed_timestamp = None /\ sequence = 0
       \/ /\ ~ OverTimeLimit(as_second(clock) - start_time)
          /\ last_elapsed_timestamp = Some(clock)
          /\ sequence = MAX_SEQUENCE
    /\ ret = "NotCalled" /\ issued = None /\ flip = FALSE /\ monotonic = TRUE
    /\ calls = 0 /\ emitted = {} /\ duplicate = FALSE
    /\ guard = None /\ local = [c \in Callers |-> None]
    /\ InitCallers /\ InitCodecQuiet /\ InitMemQuiet /\ InitMoka /\ InitRepoQuiet
    /\ InitLayerQuiet /\ InitBloomQuiet

\* The clock is stepped backward at most once; otherwise it advances.
NextFlakeFair ==
    \/ \E c \in Callers : NextIdCall(c)
    \/ \E c \in Callers : NextIdAcquire(c)
    \/ \E c \in Callers : NextIdWaited(c)
    \/ \E c \in Callers : NextIdFinish(c)
    \/ ClockAdvances
    \/ (ClockSet /\ monotonic /\ TsLess(clock', clock))

\* A step of a thread inside next_id.
NextIdStep == \E c \in Callers : NextIdAcquire(c) \/ NextIdWaited(c) \/ NextIdFinish(c)

\* While some thread can go on (the guard is free and a thread is blocked on
\* it, or the waits of the thread that holds it are over) some thread does,
\* and time keeps advancing up to the clock's last reading.
SpecFlakeFair ==
    /\ InitFlakeFair
    /\ [][NextFlakeFair]_vars
    /\ WF_vars(ClockAdvances)
    /\ WF_vars(NextIdStep)

C2_StrictlyIncreasing ==
    [][(monotonic' /\ flip' # flip /\ issued.some) => PairLess(issued.val, issued'.val)]_vars

\* C2 witness: under a clock that never went backward, the 256th ID of one second.
C2_Witness ==
    monotonic /\ ret = "Ok" /\ issued.some /\ issued.val[2] = MAX_SEQUENCE

\* C3: whatever the clock history, no two successful next_id calls return the
\* same (timestamp, sequence) pair.
C3_NoDuplicateIds == ~ duplicate

====
